---- MODULE Spec2Model ----
(***************************************************************************)
(* A model of node-enumerable (src/js/enumerable_1.ts): the pull-based     *)
(* sequence classes (ArrayEnumerable, IteratorEnumerable, the wrappers),    *)
(* the generator functions behind the lazy operators, and the eager         *)
(* operators that consume a sequence.                                       *)
(*                                                                          *)
(* Objects live in a heap (a sequence of records; an object's id is its    *)
(* position).  A generator function is a record holding its parameters,    *)
(* its locals and where it is suspended; resuming it runs its body to the  *)
(* next yield or to its end.  Every operator threads a "world"             *)
(* [h |-> heap, calls |-> log of the user functions invoked, pulls |-> for *)
(* each object the number of its next() calls that returned an element].   *)
(* calls and pulls are history kept for stating properties; no operator    *)
(* reads them.                                                             *)
(***************************************************************************)
EXTENDS Integers, Sequences, FiniteSets, TLC

VARIABLES heap, calls, pulls, resets, last, input, res, task

vars == <<heap, calls, pulls, resets, last, input, res, task>>

(***************************************************************************)
(* Bounds of the model.                                                    *)
(***************************************************************************)
MaxObjs == 2
MaxLen == 2
MaxResets == 1
MaxQueryLen == 3
MaxLevels == 3
MaxRange == 10
MaxItems == 3
MaxCalls == 2
MaxSetLen == 2
MaxChunk == 4
MaxBuild == 4
MaxAfter == 2
MaxTake == 2

(***************************************************************************)
(* JavaScript values.  A value is [t |-> type, n |-> payload]: a number n, *)
(* the string spelling the number n in decimal ('' is the string with      *)
(* payload -1), undefined or null.                                         *)
(***************************************************************************)
Undef == [t |-> "undefined", n |-> 0]
Null == [t |-> "null", n |-> 0]
Num(n) == [t |-> "number", n |-> n]
Str(n) == [t |-> "string", n |-> n]
EmptyStr == [t |-> "string", n |-> -1]

\* !!x
Truthy(x) ==
  CASE x.t = "number" -> x.n # 0
    [] x.t = "string" -> x # EmptyStr
    [] x.t \in {"undefined", "null"} -> FALSE
    [] OTHER -> TRUE

isNullOrUndefined(x) == x.t \in {"undefined", "null"}

\* The number a value converts to in a comparison ('' converts to 0).
ToNumber(x) == IF x = EmptyStr THEN 0 ELSE x.n

\* x === y
StrictEquals(x, y) == x = y

\* x == y
LooseEquals(x, y) ==
  CASE x.t = y.t -> x = y
    [] x.t \in {"undefined", "null"} /\ y.t \in {"undefined", "null"} -> TRUE
    [] x.t \in {"number", "string"} /\ y.t \in {"number", "string"} ->
         ToNumber(x) = ToNumber(y)
    [] OTHER -> FALSE

\* x < y, for numbers and strings that spell numbers
LessThan(x, y) ==
  /\ x.t \in {"number", "string"}
  /\ y.t \in {"number", "string"}
  /\ ToNumber(x) < ToNumber(y)

(***************************************************************************)
(* The functions callers pass in, by name.  "undefined" is an omitted      *)
(* argument.                                                               *)
(***************************************************************************)
Predicates == {"truthy", "even", "positive"}
Selectors == {"inc", "dbl", "mod2", "div2"}

\* The name of x => g(f(x)), for f and g among inc and dbl.
Compose(g, f) ==
  CASE g = "inc" /\ f = "inc" -> "inc.inc"
    [] g = "inc" /\ f = "dbl" -> "inc.dbl"
    [] g = "dbl" /\ f = "inc" -> "dbl.inc"
    [] OTHER -> "dbl.dbl"

Apply(fn, x) ==
  CASE fn = "truthy" -> IF Truthy(x) THEN Num(1) ELSE Num(0)
    [] fn = "inc.inc" -> Num((ToNumber(x) + 1) + 1)
    [] fn = "inc.dbl" -> Num((2 * ToNumber(x)) + 1)
    [] fn = "dbl.inc" -> Num(2 * (ToNumber(x) + 1))
    [] fn = "dbl.dbl" -> Num(2 * (2 * ToNumber(x)))
    [] fn = "even" -> IF x.t = "number" /\ x.n % 2 = 0 THEN Num(1) ELSE Num(0)
    [] fn = "positive" -> IF x.t = "number" /\ x.n > 0 THEN Num(1) ELSE Num(0)
    [] fn = "inc" -> Num(ToNumber(x) + 1)
    [] fn = "dbl" -> Num(2 * ToNumber(x))
    [] fn = "mod2" -> Num(ToNumber(x) % 2)
    [] fn = "div2" -> Num(ToNumber(x) \div 2)
    [] OTHER -> x

\* The functions passed to zip: none (the default (x, y) => x + y, on
\* numbers) and (x, y, i) => 100 * i + 10 * x + y.
ZipSelectors == {"undefined", "indexed"}

ApplyZip(fn, x, y, i) ==
  IF fn = "indexed" THEN Num(100 * i + 10 * ToNumber(x) + ToNumber(y))
  ELSE Num(ToNumber(x) + ToNumber(y))

\* The actions passed to forAll() and forEach(): none, one that never
\* throws, and three that throw new Error(...) made from the item and the
\* index: on odd items, at every index but 0, always.
EachActions == {"undefined", "noop", "failOdd", "failAfterFirst", "failAll"}

Throws(action, item, i) ==
  CASE action = "failOdd" -> item.n % 2 = 1
    [] action = "failAfterFirst" -> i >= 1
    [] action = "failAll" -> TRUE
    [] OTHER -> FALSE

\* The error the action throws for item at index i.
Thrown(action, item, i) == [t |-> "Error", n |-> <<item.n, i>>]

\* action(item, i): the call is logged; threw tells whether it threw e.
Act(w, action, item, i) ==
  [w |-> [w EXCEPT !.calls = Append(@, <<action, item, i>>)],
   threw |-> Throws(action, item, i), e |-> Thrown(action, item, i)]

\* Invoking a user function: the call is logged in the world.
Call(w, fn, x) ==
  [w |-> [w EXCEPT !.calls = Append(@, <<fn, x>>)], v |-> Apply(fn, x)]

(***************************************************************************)
(* Objects.                                                                *)
(***************************************************************************)
DoneResult == [done |-> TRUE, value |-> Undef]
Yield(v) == [done |-> FALSE, value |-> v]

NoGen ==
  [kind |-> "none", pc |-> "done", this |-> 0, fn |-> "undefined",
   wrap |-> "", cmp |-> "undefined", count |-> 0, flag |-> FALSE,
   buf |-> <<>>, args |-> <<>>]

\* EnumerableBase's constructor: _index = -1, _current not assigned.
EnumerableBase(cls) ==
  [cls |-> cls, _index |-> -1, _current |-> <<>>, _array |-> <<>>,
   _iterator |-> NoGen, _sequence |-> 0, _originalItems |-> <<>>,
   _orderSelector |-> <<>>, _orderComparer |-> <<>>, _key |-> Undef]

\* The marker symbols Enumerable.IS_EMPTY and Enumerable.NOT_FOUND (the
\* payload tells one symbol from another).
IS_EMPTY == [t |-> "symbol", n |-> 0]
NOT_FOUND == [t |-> "symbol", n |-> 1]

\* A Symbol("ELEMENT_NOT_FOUND") made by a lookup: no element equals it.
ELEMENT_NOT_FOUND == [t |-> "symbol", n |-> 2]

\* The function of that name, as a value.
Fn(name) == [t |-> "function", n |-> name]

\* The strings thrown by the lookups: 'Element not found' and 'Sequence
\* contains more that one matching element'.
NotFoundError == [t |-> "message", n |-> -1]
AmbiguousError == [t |-> "message", n |-> -2]

\* The number a / b.
Ratio(a, b) == [t |-> "ratio", n |-> <<a, b>>]

\* The value that is (a reference to) the object id.
Obj(id) == [t |-> "object", n |-> id]

ArrayEnumerable(arr) == [EnumerableBase("Array") EXCEPT !._array = arr]

IteratorEnumerable(iterator) ==
  [EnumerableBase("Iterator") EXCEPT !._iterator = iterator]

\* A generator object created by calling a generator function: nothing of its
\* body has run.
\* this: the sequence the method was called on; fn: the function passed in;
\* wrap: the library closure around it ("select": x => [selector(x)],
\* "count": () => count-- > 0); the rest are the body's locals.
Generator(kind, this, fn, wrap, cmp, count, buf) ==
  [kind |-> kind, pc |-> "start", this |-> this, fn |-> fn, wrap |-> wrap,
   cmp |-> cmp, count |-> count, flag |-> FALSE, buf |-> buf,
   args |-> <<>>]

\* An enumerable used as the iterator of another sequence.
EnumerableAsIterator(id) == [NoGen EXCEPT !.kind = "enumerable", !.this = id, !.pc = "start"]

NewObject(w, obj) ==
  [w EXCEPT !.h = Append(@, obj), !.pulls = Append(@, 0)]
NewId(w) == Len(w.h) + 1

SetGen(w, id, g) == [w EXCEPT !.h[id]._iterator = g]

\* yield v
Suspend(w, id, g, v) ==
  [w |-> SetGen(w, id, [g EXCEPT !.pc = "suspended"]), r |-> Yield(v),
   again |-> FALSE]

\* The body ends.
Return(w, id, g) ==
  [w |-> SetGen(w, id, [g EXCEPT !.pc = "done"]), r |-> DoneResult,
   again |-> FALSE]

\* The body goes round its loop: the next iteration starts.
Continue(w, id, g) ==
  [w |-> SetGen(w, id, [g EXCEPT !.pc = "suspended"]), r |-> DoneResult,
   again |-> TRUE]

(***************************************************************************)
(* Helpers that make an optional argument a total function.                *)
(***************************************************************************)
\* The equality comparers callers pass in: none, true,
\* (x, y) => x % 2 === y % 2 and (x, y) => Math.abs(x - y) <= 1
\* (undefined converts to NaN, which equals and is near nothing).
EqualityComparers == {"undefined", "true", "sameParity", "near"}

\* toEqualityComparerSafe(comparer)(x, y)
toEqualityComparerSafe(cmp, x, y) ==
  CASE cmp = "undefined" -> LooseEquals(x, y)
    [] cmp = "true" -> StrictEquals(x, y)
    [] cmp = "sameParity" ->
         /\ x.t # "undefined" /\ y.t # "undefined"
         /\ ToNumber(x) % 2 = ToNumber(y) % 2
    [] cmp = "near" ->
         /\ x.t # "undefined" /\ y.t # "undefined"
         /\ ToNumber(x) - ToNumber(y) \in {-1, 0, 1}
    [] OTHER -> FALSE

\* toPredicateSafe(predicate)(item), the closures of skip() and take()
\* included: [w, g, b] with the world, the generator's locals and the
\* truth of the result.
toPredicateSafe(w, g, item) ==
  IF g.wrap = "count"
  THEN [w |-> w, g |-> [g EXCEPT !.count = @ - 1], b |-> g.count > 0]
  ELSE IF g.fn = "undefined"
  THEN [w |-> w, g |-> g, b |-> TRUE]
  ELSE LET c == Call(w, g.fn, item) IN [w |-> c.w, g |-> g, b |-> Truthy(c.v)]

\* A selector argument, the identity when omitted.
SelectorOrIdentity(w, fn, x) ==
  IF fn = "undefined" THEN [w |-> w, v |-> x] ELSE Call(w, fn, x)

\* The selector passed to selectMany(): the array it returns.
ArraySelectors == {"dup", "none", "pair"}

ApplyMany(fn, x) ==
  CASE fn = "dup" -> <<x, x>>
    [] fn = "none" -> <<>>
    [] fn = "pair" -> <<x, Num(ToNumber(x) + 1)>>
    [] OTHER -> <<x>>

\* A faulty variant of SelectManySelector, in which select() calls its
\* selector twice on every element.
SelectManySelectorTwice(w, g, s) ==
  IF g.wrap = "select"
  THEN LET c0 == SelectorOrIdentity(w, g.fn, s)
           c == SelectorOrIdentity(c0.w, g.fn, s)
       IN [w |-> c.w, v |-> <<c.v>>]
  ELSE IF g.fn = "undefined"
  THEN [w |-> w, v |-> <<s>>]
  ELSE [w |-> [w EXCEPT !.calls = Append(@, <<g.fn, s>>)],
        v |-> ApplyMany(g.fn, s)]

SelectManySelector(w, g, s) ==
  IF g.wrap = "select"
  THEN LET c == SelectorOrIdentity(w, g.fn, s) IN [w |-> c.w, v |-> <<c.v>>]
  ELSE IF g.fn = "undefined"
  THEN [w |-> w, v |-> <<s>>]
  ELSE [w |-> [w EXCEPT !.calls = Append(@, <<g.fn, s>>)],
        v |-> ApplyMany(g.fn, s)]

(***************************************************************************)
(* The factory: each call returns the new sequence's id.                   *)
(***************************************************************************)
New(w, obj) == [w |-> NewObject(w, obj), id |-> NewId(w)]

\* from(seq): an array gives an ArrayEnumerable, anything else is taken as
\* an iterator.
fromArray(w, arr) == New(w, ArrayEnumerable(arr))

fromIterator(w, g) == New(w, IteratorEnumerable(g))

fromEnumerable(w, id) == fromIterator(w, EnumerableAsIterator(id))

(***************************************************************************)
(* next() of the sequence classes, and the generator bodies.               *)
(***************************************************************************)
RECURSIVE next(_, _)
RECURSIVE Resume(_, _)

\* ArrayEnumerable.next
ArrayNext(w, id) ==
  LET o == w.h[id]
      NEXT_INDEX == o._index + 1
  IN IF NEXT_INDEX >= Len(o._array)
     THEN [w |-> [w EXCEPT !.h[id]._current = <<DoneResult>>],
           r |-> DoneResult]
     ELSE LET result == Yield(o._array[NEXT_INDEX + 1])
          IN [w |-> [w EXCEPT !.h[id]._index = NEXT_INDEX,
                              !.h[id]._current = <<result>>],
              r |-> result]

\* IteratorEnumerable.next, from the result p of this._iterator.next() on
SetCurrent(p, id) ==
  [w |-> [p.w EXCEPT !.h[id]._current = <<p.r>>,
                     !.h[id]._index = IF p.r.done THEN @ ELSE @ + 1],
   r |-> p.r]

\* IteratorEnumerable.next
IteratorNext(w, id) == SetCurrent(Resume(w, id), id)

\* EnumerableWrapper.next
WrapperNext(w, id) == next(w, w.h[id]._sequence)

\* History: one more element returned by id's next().
Pulled(p, id) ==
  IF p.r.done THEN p ELSE [p EXCEPT !.w.pulls[id] = @ + 1]

next(w, id) ==
  CASE w.h[id].cls = "Array" -> Pulled(ArrayNext(w, id), id)
    [] w.h[id].cls = "Iterator" -> Pulled(IteratorNext(w, id), id)
    [] OTHER -> Pulled(WrapperNext(w, id), id)

(***************************************************************************)
(* The generator bodies.  A body is resumed either at the head of its      *)
(* for-of loop over this, and then p is what this.next() gave ([w, r]), or *)
(* at a point where it has something to yield without pulling, and then    *)
(* p.w is the world as it is.  The body runs to its next yield (Suspend),  *)
(* to its end (Return), or to the head of the loop again (Continue).       *)
(***************************************************************************)
\* function* toIterator(seq) { for (let i of seq) yield i; }
toIterator(p, id) ==
  LET g == p.w.h[id]._iterator
  IN IF g.buf = <<>>
     THEN Return(p.w, id, g)
     ELSE Suspend(p.w, id, [g EXCEPT !.buf = Tail(@)], Head(g.buf))

\* A faulty variant of _whereInner, which returns at the first element the
\* predicate rejects.
_whereInnerStopping(p, id) ==
  LET g == p.w.h[id]._iterator
  IN IF p.r.done
     THEN Return(p.w, id, g)
     ELSE LET c == toPredicateSafe(p.w, g, p.r.value)
          IN IF c.b
             THEN Suspend(c.w, id, c.g, p.r.value)
             ELSE Return(c.w, id, c.g)

_whereInner(p, id) ==
  LET g == p.w.h[id]._iterator
  IN IF p.r.done
     THEN Return(p.w, id, g)
     ELSE LET c == toPredicateSafe(p.w, g, p.r.value)
          IN IF c.b
             THEN Suspend(c.w, id, c.g, p.r.value)
             ELSE Continue(c.w, id, c.g)

\* buf holds what the inner for-of over from(selector(s)) has yet to yield.
_selectManyInner(p, id) ==
  LET g == p.w.h[id]._iterator
  IN IF g.buf # <<>>
     THEN Suspend(p.w, id, [g EXCEPT !.buf = Tail(@)], Head(g.buf))
     ELSE IF p.r.done
     THEN Return(p.w, id, g)
     ELSE LET c == SelectManySelector(p.w, g, p.r.value)
          IN IF c.v = <<>>
             THEN Continue(c.w, id, g)
             ELSE Suspend(c.w, id, [g EXCEPT !.buf = Tail(c.v)], Head(c.v))

\* A faulty variant of _distinctByInner, which compares a key with the last
\* key it kept only.
_distinctByInnerAdjacent(p, id) ==
  LET g == p.w.h[id]._iterator
  IN IF p.r.done
     THEN Return(p.w, id, g)
     ELSE LET c == SelectorOrIdentity(p.w, g.fn, p.r.value)
              KEY_ITEM == c.v
              found == /\ g.buf # <<>>
                       /\ toEqualityComparerSafe(g.cmp, KEY_ITEM,
                                                 g.buf[Len(g.buf)])
          IN IF ~found
             THEN Suspend(c.w, id, [g EXCEPT !.buf = Append(@, KEY_ITEM)],
                          p.r.value)
             ELSE Continue(c.w, id, g)

\* buf is TEMP, the keys seen so far.
_distinctByInner(p, id) ==
  LET g == p.w.h[id]._iterator
  IN IF p.r.done
     THEN Return(p.w, id, g)
     ELSE LET c == SelectorOrIdentity(p.w, g.fn, p.r.value)
              KEY_ITEM == c.v
              found == \E i \in 1..Len(g.buf) :
                          toEqualityComparerSafe(g.cmp, KEY_ITEM, g.buf[i])
          IN IF ~found
             THEN Suspend(c.w, id, [g EXCEPT !.buf = Append(@, KEY_ITEM)],
                          p.r.value)
             ELSE Continue(c.w, id, g)

\* flag is returnItem.
_skipWhileInner(p, id) ==
  LET g == p.w.h[id]._iterator
  IN IF p.r.done
     THEN Return(p.w, id, g)
     ELSE IF g.flag
     THEN Suspend(p.w, id, g, p.r.value)
     ELSE LET c == toPredicateSafe(p.w, g, p.r.value)
          IN IF ~c.b
             THEN Suspend(c.w, id, [c.g EXCEPT !.flag = TRUE], p.r.value)
             ELSE Continue(c.w, id, c.g)

\* A faulty variant of _takeWhileInner: it takes while the index of the
\* sequence it iterates is below its count, whoever pulled that sequence.
_takeWhileInnerByIndex(p, id) ==
  LET g == p.w.h[id]._iterator
  IN IF p.r.done
     THEN Return(p.w, id, g)
     ELSE IF p.w.h[g.this]._index < g.count
          THEN Suspend(p.w, id, g, p.r.value)
          ELSE Return(p.w, id, g)

_takeWhileInner(p, id) ==
  LET g == p.w.h[id]._iterator
  IN IF p.r.done
     THEN Return(p.w, id, g)
     ELSE LET c == toPredicateSafe(p.w, g, p.r.value)
          IN IF c.b
             THEN Suspend(c.w, id, c.g, p.r.value)
             ELSE Return(c.w, id, c.g)

\* count is i, the index handed to the action.
_pipeInner(p, id) ==
  LET g == p.w.h[id]._iterator
  IN IF p.r.done
     THEN Return(p.w, id, g)
     ELSE LET i == g.count + 1
              w1 == IF g.fn = "undefined" THEN p.w
                    ELSE Call(p.w, g.fn, p.r.value).w
          IN Suspend(w1, id, [g EXCEPT !.count = i], p.r.value)

\* flag is !isFirst; buf holds item, the element held back.
_skipLastInner(p, id) ==
  LET g == p.w.h[id]._iterator
  IN IF p.r.done
     THEN Return(p.w, id, g)
     ELSE IF g.flag
     THEN Suspend(p.w, id, [g EXCEPT !.buf = <<p.r.value>>], g.buf[1])
     ELSE Continue(p.w, id, [g EXCEPT !.flag = TRUE, !.buf = <<p.r.value>>])

\* args are the separators; flag is !isFirst; buf holds what is yet to be
\* yielded for the element pulled last.
_intersperseInner(p, id) ==
  LET g == p.w.h[id]._iterator
  IN IF g.buf # <<>>
     THEN Suspend(p.w, id, [g EXCEPT !.buf = Tail(@)], Head(g.buf))
     ELSE IF p.r.done
     THEN Return(p.w, id, g)
     ELSE IF g.flag
     THEN Suspend(p.w, id,
                  [g EXCEPT !.buf = Tail(g.args \o <<p.r.value>>)],
                  Head(g.args \o <<p.r.value>>))
     ELSE Suspend(p.w, id, [g EXCEPT !.flag = TRUE], p.r.value)

\* args is the array passed to concat(); flag: this is exhausted and buf
\* holds what the for-of over from(args) has yet to yield.
_concatArrayInner(p, id) ==
  LET g == p.w.h[id]._iterator
  IN IF g.flag
     THEN IF g.buf = <<>> THEN Return(p.w, id, g)
          ELSE Suspend(p.w, id, [g EXCEPT !.buf = Tail(@)], Head(g.buf))
     ELSE IF ~p.r.done
     THEN Suspend(p.w, id, g, p.r.value)
     ELSE IF g.args = <<>>
     THEN Return(p.w, id, [g EXCEPT !.flag = TRUE])
     ELSE Suspend(p.w, id, [g EXCEPT !.flag = TRUE, !.buf = Tail(g.args)],
                  Head(g.args))

\* args is the array passed to prepend(); buf holds what the for-of over
\* from(args) has yet to yield.
_prependArrayInner(p, id) ==
  LET g == p.w.h[id]._iterator
  IN IF g.buf # <<>>
     THEN Suspend(p.w, id, [g EXCEPT !.buf = Tail(@)], Head(g.buf))
     ELSE IF p.r.done
     THEN Return(p.w, id, g)
     ELSE Suspend(p.w, id, g, p.r.value)

\* GROUP_LIST after one more item: the item joins the first group whose key
\* the comparer takes for equal to KEY, a new last group when there is none.
\* A faulty variant of AddToGroups, which looks at the last group only.
AddToGroupsAdjacent(GROUP_LIST, KEY, item, cmp) ==
  LET n == Len(GROUP_LIST)
  IN IF n > 0 /\ toEqualityComparerSafe(cmp, KEY, GROUP_LIST[n].key)
     THEN [GROUP_LIST EXCEPT ![n].values = Append(@, item)]
     ELSE Append(GROUP_LIST, [key |-> KEY, values |-> <<item>>])

AddToGroups(GROUP_LIST, KEY, item, cmp) ==
  LET found == {i \in 1..Len(GROUP_LIST) :
                  toEqualityComparerSafe(cmp, KEY, GROUP_LIST[i].key)}
  IN IF found # {}
     THEN LET grp == CHOOSE i \in found : \A j \in found : i <= j
          IN [GROUP_LIST EXCEPT ![grp].values = Append(@, item)]
     ELSE Append(GROUP_LIST, [key |-> KEY, values |-> <<item>>])

\* new Grouping(key, seq), seq being o.id in the world o.w
Grouping(o, key) ==
  New(o.w, [EnumerableBase("Grouping") EXCEPT !._sequence = o.id,
                                              !._key = key])

\* yield o, an object just made
YieldNew(o, id, g) == Suspend(o.w, id, g, Obj(o.id))

\* _groupByInner's second loop: buf is GROUP_LIST, count the groups yielded.
YieldGroup(w, id, g) ==
  IF g.count >= Len(g.buf)
  THEN Return(w, id, g)
  ELSE YieldNew(Grouping(fromArray(w, g.buf[g.count + 1].values),
                         g.buf[g.count + 1].key),
                id, [g EXCEPT !.count = @ + 1])

\* flag: the first loop is over.
_groupByInner(p, id) ==
  LET g == p.w.h[id]._iterator
  IN IF g.flag
     THEN YieldGroup(p.w, id, g)
     ELSE IF p.r.done
     THEN YieldGroup(p.w, id, [g EXCEPT !.flag = TRUE])
     ELSE LET c == SelectorOrIdentity(p.w, g.fn, p.r.value)
          IN Continue(c.w, id,
                      [g EXCEPT !.buf = AddToGroups(@, c.v, p.r.value, g.cmp)])

\* A faulty variant of zipSecond, which goes on with the elements of this
\* when second is exhausted.
zipSecondPadding(q, x, id) ==
  LET g == q.w.h[id]._iterator
  IN Suspend(q.w, id, [g EXCEPT !.count = @ + 1],
             IF q.r.done THEN x
             ELSE ApplyZip(g.fn, x, q.r.value, g.count + 1))

\* zipInner from ITEM_SECOND on: q is what second.next() gave, x is
\* ITEM_THIS.value; count holds i.
zipSecond(q, x, id) ==
  LET g == q.w.h[id]._iterator
  IN IF q.r.done
     THEN Return(q.w, id, g)
     ELSE Suspend(q.w, id, [g EXCEPT !.count = @ + 1],
                  ApplyZip(g.fn, x, q.r.value, g.count + 1))

\* function* zipInner(second, resultSelector): args holds second.
zipInner(p, id) ==
  IF p.r.done
  THEN Return(p.w, id, p.w.h[id]._iterator)
  ELSE zipSecond(next(p.w, p.w.h[id]._iterator.args[1]), p.r.value, id)

\* function* rangeInner(start, count): buf holds current; flag is isNaN(count).
rangeInner(p, id) ==
  LET g == p.w.h[id]._iterator
  IN IF ~g.flag /\ g.count < 1
     THEN Return(p.w, id, [g EXCEPT !.count = @ - 1])
     ELSE Suspend(p.w, id,
                  [g EXCEPT !.count = IF g.flag THEN @ ELSE @ - 1,
                            !.buf = <<Num(g.buf[1].n + 1)>>],
                  g.buf[1])

\* item equals, by the comparer cmp, some element of the array second.
FoundIn(second, cmp, item) ==
  \E i \in 1..Len(second) : toEqualityComparerSafe(cmp, item, second[i])

\* args is second, the array handed over by except().
_exceptInner(p, id) ==
  LET g == p.w.h[id]._iterator
  IN IF p.r.done
     THEN Return(p.w, id, g)
     ELSE IF ~FoundIn(g.args, g.cmp, p.r.value)
     THEN Suspend(p.w, id, g, p.r.value)
     ELSE Continue(p.w, id, g)

\* args is second, the array handed over by intersect().
_intersectInner(p, id) ==
  LET g == p.w.h[id]._iterator
  IN IF p.r.done
     THEN Return(p.w, id, g)
     ELSE IF FoundIn(g.args, g.cmp, p.r.value)
     THEN Suspend(p.w, id, g, p.r.value)
     ELSE Continue(p.w, id, g)

\* CANCEL(flag), and CANCEL() when args is empty: the new value of run
CANCEL(args) == IF Len(args) < 1 THEN FALSE ELSE ~Truthy(args[1])

\* factory(CANCEL, i): [w, run, v].  called are the calls of CANCEL the
\* factory made, in order; run was true before.
Produced(w, factory, i, called, v) ==
  [w |-> [w EXCEPT !.calls = Append(@, <<factory, i>>)],
   run |-> IF called = <<>> THEN TRUE ELSE CANCEL(called[Len(called)]),
   v |-> v]

\* An array, as a value.
Arr(items) == [t |-> "array", n |-> items]

\* The factories passed to build() and buildMany(); c is the index from
\* which those that cancel do.
\*   index: (cancel, i) => i
\*   keep: (cancel, i) => { cancel(false); return i; }
\*   indexUntil: (cancel, i) => { if (i >= c) cancel(); return i < c ? i : -1; }
\*   until: (cancel, i) => { if (i >= c) { cancel(); return [-1]; }
\*            return [[10 * i], [10 * i, 10 * i + 1], null][i % 3]; }
Factory(w, factory, c, i) ==
  CASE factory = "index" -> Produced(w, factory, i, <<>>, Num(i))
    [] factory = "keep" -> Produced(w, factory, i, <<<<Num(0)>>>>, Num(i))
    [] factory = "indexUntil" ->
         IF i >= c THEN Produced(w, factory, i, <<<<>>>>, Num(-1))
         ELSE Produced(w, factory, i, <<>>, Num(i))
    [] OTHER ->
         IF i >= c THEN Produced(w, factory, i, <<<<>>>>, Arr(<<Num(-1)>>))
         ELSE Produced(w, factory, i, <<>>,
                CASE i % 3 = 0 -> Arr(<<Num(10 * i)>>)
                  [] i % 3 = 1 -> Arr(<<Num(10 * i), Num(10 * i + 1)>>)
                  [] OTHER -> Null)

\* buildInner from NEW_ITEM = factory(CANCEL, i) on: i is in g.count
buildItem(NEW_ITEM, id, g) ==
  IF NEW_ITEM.run THEN Suspend(NEW_ITEM.w, id, g, NEW_ITEM.v)
  ELSE Return(NEW_ITEM.w, id, g)

\* A faulty variant of buildInner, which stops one invocation late.
buildInnerOneMore(p, id) ==
  LET g == [p.w.h[id]._iterator EXCEPT !.count = @ + 1]
  IN IF g.args[1].t = "number" /\ g.count > g.args[1].n
     THEN Return(p.w, id, g)
     ELSE buildItem(Factory(p.w, g.fn, g.args[2], g.count), id, g)

\* function* buildInner(factory, count): count holds i; args holds count
\* (undefined for NaN) and the factory's c.
buildInner(p, id) ==
  LET g == [p.w.h[id]._iterator EXCEPT !.count = @ + 1]
  IN IF g.args[1].t = "number" /\ g.count >= g.args[1].n
     THEN Return(p.w, id, g)
     ELSE buildItem(Factory(p.w, g.fn, g.args[2], g.count), id, g)

\* buildManyInner from SEQ = factory(CANCEL, i) on
buildManyItems(SEQ, id, g) ==
  IF ~SEQ.run THEN Return(SEQ.w, id, g)
  ELSE IF isNullOrUndefined(SEQ.v) \/ SEQ.v.n = <<>>
  THEN Continue(SEQ.w, id, g)
  ELSE Suspend(SEQ.w, id, [g EXCEPT !.buf = Tail(SEQ.v.n)], Head(SEQ.v.n))

\* function* buildManyInner(factory, count): buf holds what the for-of over
\* SEQ has yet to yield.
buildManyInner(p, id) ==
  LET g == p.w.h[id]._iterator
      i == g.count + 1
  IN IF g.buf # <<>>
     THEN Suspend(p.w, id, [g EXCEPT !.buf = Tail(@)], Head(g.buf))
     ELSE IF g.args[1].t = "number" /\ i >= g.args[1].n
     THEN Return(p.w, id, [g EXCEPT !.count = i])
     ELSE buildManyItems(Factory(p.w, g.fn, g.args[2], i), id,
                         [g EXCEPT !.count = i])

\* getNextChunkArray's loop: p is what this.next() gave
RECURSIVE getNextChunkLoop(_, _, _, _)
\* A faulty variant of getNextChunkItem, which stops when the array is
\* longer than size.
getNextChunkItemLonger(p, id, size, ARR) ==
  IF p.r.done THEN [w |-> p.w, v |-> ARR]
  ELSE IF Len(ARR) + 1 > size THEN [w |-> p.w, v |-> Append(ARR, p.r.value)]
  ELSE getNextChunkLoop(p.w, id, size, Append(ARR, p.r.value))

getNextChunkItem(p, id, size, ARR) ==
  IF p.r.done THEN [w |-> p.w, v |-> ARR]
  ELSE IF Len(ARR) + 1 >= size THEN [w |-> p.w, v |-> Append(ARR, p.r.value)]
  ELSE getNextChunkLoop(p.w, id, size, Append(ARR, p.r.value))

getNextChunkLoop(w, id, size, ARR) ==
  getNextChunkItem(next(w, id), id, size, ARR)

getNextChunkArray(w, id, size) == getNextChunkLoop(w, id, size, <<>>)

\* _chunkInner's loop from if (ARR.length > 0) on
chunkYield(ARR, id) ==
  IF Len(ARR.v) > 0
  THEN YieldNew(fromArray(ARR.w, ARR.v), id, ARR.w.h[id]._iterator)
  ELSE Return(ARR.w, id, ARR.w.h[id]._iterator)

\* count holds size.
_chunkInner(p, id) ==
  chunkYield(getNextChunkArray(p.w, p.w.h[id]._iterator.this,
                               p.w.h[id]._iterator.count), id)

RECURSIVE createGroupArrayForSequence(_, _, _)

\* The default resultSelector of join(): { inner: _inner, outer: _outer }
JoinedItems(_outer, _inner) == [t |-> "JoinedItems", n |-> <<_outer, _inner>>]

\* The concatenation of the arrays of an array.
RECURSIVE Flatten(_)
Flatten(arrs) ==
  IF arrs = <<>> THEN <<>> ELSE Head(arrs) \o Flatten(Tail(arrs))

\* The loops over j and k of _joinInner: what they yield.
JoinGroups(OUTER_GRP, INNER_GRP) ==
  Flatten([j \in 1..Len(OUTER_GRP.values) |->
             [k \in 1..Len(INNER_GRP.values) |->
                JoinedItems(OUTER_GRP.values[j], INNER_GRP.values[k])]])

\* The loop over i of _joinInner, for one OUTER_GRP: what it yields.
JoinInnerGroups(OUTER_GRP, INNER_GROUPS, keyEqualityComparer) ==
  Flatten([i \in 1..Len(INNER_GROUPS) |->
             IF ~toEqualityComparerSafe(keyEqualityComparer, OUTER_GRP.key,
                                        INNER_GROUPS[i].key)
             THEN <<>>
             ELSE JoinGroups(OUTER_GRP, INNER_GROUPS[i])])

\* The while loop of _joinInner: what it yields.
JoinOuterGroups(OUTER_GROUPS, INNER_GROUPS, keyEqualityComparer) ==
  Flatten([o \in 1..Len(OUTER_GROUPS) |->
             JoinInnerGroups(OUTER_GROUPS[o], INNER_GROUPS,
                             keyEqualityComparer)])

\* buf holds what the loops have yet to yield.
YieldBuffered(w, id, g) ==
  IF g.buf = <<>> THEN Return(w, id, g)
  ELSE Suspend(w, id, [g EXCEPT !.buf = Tail(@)], Head(g.buf))

\* _joinInner from the second createGroupArrayForSequence on
joinInnerGrouped(OUTER_GROUPS, INNER_GROUPS, id) ==
  YieldBuffered(INNER_GROUPS.w, id,
    [INNER_GROUPS.w.h[id]._iterator EXCEPT
       !.buf = JoinOuterGroups(OUTER_GROUPS.v, INNER_GROUPS.v,
                               INNER_GROUPS.w.h[id]._iterator.cmp)])

joinOuterGrouped(OUTER_GROUPS, id) ==
  joinInnerGrouped(OUTER_GROUPS,
    createGroupArrayForSequence(OUTER_GROUPS.w,
                                OUTER_GROUPS.w.h[id]._iterator.args[1],
                                OUTER_GROUPS.w.h[id]._iterator.args[2]),
    id)

\* args holds inner and innerKeySelector, fn is outerKeySelector; the
\* result selector is the default one.
_joinInner(p, id) ==
  LET g == p.w.h[id]._iterator
  IN IF g.pc = "start"
     THEN joinOuterGrouped(createGroupArrayForSequence(p.w, g.this, g.fn), id)
     ELSE YieldBuffered(p.w, id, g)

\* The loop over j of _groupJoinInner: what it yields.  The sequence
\* from(INNER_GRP.values) handed to the result selector is held as the array
\* it reads.
GroupJoinGroups(OUTER_GRP, INNER_GRP) ==
  [j \in 1..Len(OUTER_GRP.values) |->
     JoinedItems(OUTER_GRP.values[j], Arr(INNER_GRP.values))]

\* The loop over i of _groupJoinInner, for one OUTER_GRP: what it yields.
GroupJoinInnerGroups(OUTER_GRP, INNER_GROUPS, keyEqualityComparer) ==
  Flatten([i \in 1..Len(INNER_GROUPS) |->
             IF ~toEqualityComparerSafe(keyEqualityComparer, OUTER_GRP.key,
                                        INNER_GROUPS[i].key)
             THEN <<>>
             ELSE GroupJoinGroups(OUTER_GRP, INNER_GROUPS[i])])

\* The while loop of _groupJoinInner: what it yields.
GroupJoinOuterGroups(OUTER_GROUPS, INNER_GROUPS, keyEqualityComparer) ==
  Flatten([o \in 1..Len(OUTER_GROUPS) |->
             GroupJoinInnerGroups(OUTER_GROUPS[o], INNER_GROUPS,
                                  keyEqualityComparer)])

\* _groupJoinInner from the second createGroupArrayForSequence on
groupJoinInnerGrouped(OUTER_GROUPS, INNER_GROUPS, id) ==
  YieldBuffered(INNER_GROUPS.w, id,
    [INNER_GROUPS.w.h[id]._iterator EXCEPT
       !.buf = GroupJoinOuterGroups(OUTER_GROUPS.v, INNER_GROUPS.v,
                                    INNER_GROUPS.w.h[id]._iterator.cmp)])

groupJoinOuterGrouped(OUTER_GROUPS, id) ==
  groupJoinInnerGrouped(OUTER_GROUPS,
    createGroupArrayForSequence(OUTER_GROUPS.w,
                                OUTER_GROUPS.w.h[id]._iterator.args[1],
                                OUTER_GROUPS.w.h[id]._iterator.args[2]),
    id)

\* args holds inner and innerKeySelector, fn is outerKeySelector; the
\* result selector is the default one.
_groupJoinInner(p, id) ==
  LET g == p.w.h[id]._iterator
  IN IF g.pc = "start"
     THEN groupJoinOuterGrouped(
            createGroupArrayForSequence(p.w, g.this, g.fn), id)
     ELSE YieldBuffered(p.w, id, g)

\* The generator is at the head of its for-of loop over this: the next thing
\* it does is this.next().  (An enumerable taken as an iterator always is.)
AtForOf(g) ==
  CASE g.kind \in {"toIterator", "range", "join", "groupJoin", "chunk",
                   "build", "buildMany"} -> FALSE
    [] g.kind \in {"selectMany", "intersperse", "prependArray"} -> g.buf = <<>>
    [] g.kind \in {"concatArray", "groupBy"} -> ~g.flag
    [] OTHER -> TRUE

Body(p, id) ==
  LET g == p.w.h[id]._iterator
  IN CASE g.kind = "enumerable" -> [w |-> p.w, r |-> p.r, again |-> FALSE]
       [] g.kind = "toIterator" -> toIterator(p, id)
       [] g.kind = "range" -> rangeInner(p, id)
       [] g.kind = "zip" -> zipInner(p, id)
       [] g.kind = "groupBy" -> _groupByInner(p, id)
       [] g.kind = "join" -> _joinInner(p, id)
       [] g.kind = "groupJoin" -> _groupJoinInner(p, id)
       [] g.kind = "chunk" -> _chunkInner(p, id)
       [] g.kind = "build" -> buildInner(p, id)
       [] g.kind = "buildMany" -> buildManyInner(p, id)
       [] g.kind = "except" -> _exceptInner(p, id)
       [] g.kind = "intersect" -> _intersectInner(p, id)
       [] g.kind = "where" -> _whereInner(p, id)
       [] g.kind = "selectMany" -> _selectManyInner(p, id)
       [] g.kind = "distinctBy" -> _distinctByInner(p, id)
       [] g.kind = "skipWhile" -> _skipWhileInner(p, id)
       [] g.kind = "takeWhile" -> _takeWhileInner(p, id)
       [] g.kind = "pipe" -> _pipeInner(p, id)
       [] g.kind = "skipLast" -> _skipLastInner(p, id)
       [] g.kind = "intersperse" -> _intersperseInner(p, id)
       [] g.kind = "concatArray" -> _concatArrayInner(p, id)
       [] OTHER -> _prependArrayInner(p, id)

\* iterator.next() of the iterator an IteratorEnumerable holds: a generator
\* that has returned stays done; an enumerable answers with its own next().
\* s is where the body got to: at the head of its loop it runs on.
Loop(s, id) ==
  IF s.again THEN Resume(s.w, id) ELSE [w |-> s.w, r |-> s.r]

Resume(w, id) ==
  LET g == w.h[id]._iterator
  IN IF g.kind # "enumerable" /\ g.pc = "done"
     THEN [w |-> w, r |-> DoneResult]
     ELSE Loop(Body(IF AtForOf(g) THEN next(w, g.this)
                    ELSE [w |-> w, r |-> DoneResult], id), id)

(***************************************************************************)
(* The lazy operators: each returns the new sequence's id.                 *)
(***************************************************************************)
\* parseInt(toStringSafe(count).trim()), 1 when that is NaN
ParseCount(v) ==
  IF v.t \in {"number", "string"} /\ v # EmptyStr THEN v.n ELSE 1

\* range(start, count): start is parseFloat(...), 0 when NaN; count is
\* parseInt(...), which may be NaN.
range(w, start, count) ==
  fromIterator(w,
    [Generator("range", 0, "undefined", "", "undefined",
               IF count.t = "number" THEN count.n ELSE 0,
               <<IF start.t = "number" THEN start ELSE Num(0)>>)
       EXCEPT !.flag = count.t # "number"])

groupBy(w, this, keySelector, keyEqualityComparer) ==
  fromIterator(w,
    Generator("groupBy", this, keySelector, "", keyEqualityComparer, 0, <<>>))

\* zip(second, resultSelector), from(second) being o.id in the world o.w
zipInto(o, this, resultSelector) ==
  fromIterator(o.w,
    [Generator("zip", this, resultSelector, "", "undefined", -1, <<>>)
       EXCEPT !.args = <<o.id>>])

zip(w, this, second, resultSelector) ==
  zipInto(fromArray(w, second), this, resultSelector)

\* build(factory, count): count is parseInt(...), which may be NaN
build(w, factory, c, cnt) ==
  fromIterator(w,
    [Generator("build", 0, factory, "", "undefined", -1, <<>>)
       EXCEPT !.args = <<IF cnt.t = "number" THEN cnt ELSE Undef, c>>])

buildMany(w, factory, c, cnt) ==
  fromIterator(w,
    [Generator("buildMany", 0, factory, "", "undefined", -1, <<>>)
       EXCEPT !.args = <<IF cnt.t = "number" THEN cnt ELSE Undef, c>>])

\* chunk(size): size is parseInt(toStringSafe(size).trim()), 1 when NaN
chunk(w, this, size) ==
  fromIterator(w,
    Generator("chunk", this, "undefined", "", "undefined", ParseCount(size),
              <<>>))

\* A faulty variant of where, which pulls the first element when it is
\* constructed.
whereEager(w, this, predicate) ==
  LET o == fromIterator(w, Generator("where", this, predicate, "",
                                     "undefined", 0, <<>>))
  IN [w |-> next(o.w, o.id).w, id |-> o.id]

where(w, this, predicate) ==
  fromIterator(w, Generator("where", this, predicate, "", "undefined", 0, <<>>))

selectMany(w, this, selector) ==
  fromIterator(w,
    Generator("selectMany", this, selector, "", "undefined", 0, <<>>))

select(w, this, selector) ==
  fromIterator(w,
    Generator("selectMany", this, selector, "select", "undefined", 0, <<>>))

distinctBy(w, this, selector, comparer) ==
  fromIterator(w, Generator("distinctBy", this, selector, "", comparer, 0, <<>>))

distinct(w, this, comparer) == distinctBy(w, this, "undefined", comparer)

skipWhile(w, this, predicate) ==
  fromIterator(w,
    Generator("skipWhile", this, predicate, "", "undefined", 0, <<>>))

\* A faulty variant of skip, which skips one element more.
skipOneMore(w, this, count) ==
  fromIterator(w,
    Generator("skipWhile", this, "undefined", "count", "undefined",
              ParseCount(count) + 1, <<>>))

skip(w, this, count) ==
  fromIterator(w,
    Generator("skipWhile", this, "undefined", "count", "undefined",
              ParseCount(count), <<>>))

takeWhile(w, this, predicate) ==
  fromIterator(w,
    Generator("takeWhile", this, predicate, "", "undefined", 0, <<>>))

take(w, this, count) ==
  fromIterator(w,
    Generator("takeWhile", this, "undefined", "count", "undefined",
              ParseCount(count), <<>>))

pipe(w, this, action) ==
  fromIterator(w, Generator("pipe", this, action, "", "undefined", -1, <<>>))

notEmpty(w, this) == where(w, this, "truthy")

skipLast(w, this) ==
  fromIterator(w,
    Generator("skipLast", this, "undefined", "", "undefined", 0, <<>>))

intersperse(w, this, separators) ==
  fromIterator(w,
    [Generator("intersperse", this, "undefined", "", "undefined", 0, <<>>)
       EXCEPT !.args = separators])

\* concat(arr) with one array
concat(w, this, arr) ==
  fromIterator(w,
    [Generator("concatArray", this, "undefined", "", "undefined", 0, <<>>)
       EXCEPT !.args = arr])

\* prepend(arr) with one array
prepend(w, this, arr) ==
  fromIterator(w,
    [Generator("prependArray", this, "undefined", "", "undefined", 0, arr)
       EXCEPT !.args = arr])

(***************************************************************************)
(* Eager operators.                                                        *)
(***************************************************************************)
\* for (let i of this) ARR.push(i): p is what this.next() gave
RECURSIVE toArrayLoop(_, _, _)
toArrayPush(p, id, ARR) ==
  IF p.r.done THEN [w |-> p.w, v |-> ARR]
  ELSE toArrayLoop(p.w, id, Append(ARR, p.r.value))

toArrayLoop(w, id, ARR) == toArrayPush(next(w, id), id, ARR)

toArray(w, id) == toArrayLoop(w, id, <<>>)

\* o.toArray(), for the sequence o.id of the world o.w
toArrayOf(o) == toArray(o.w, o.id)

\* for (let item of this) if (predicate(item)) ++cnt: p is what this.next()
\* gave
RECURSIVE countLoop(_, _, _, _)
countItem(p, id, predicate, cnt) ==
  IF p.r.done THEN [w |-> p.w, v |-> cnt]
  ELSE LET c == toPredicateSafe(p.w, [NoGen EXCEPT !.fn = predicate],
                                p.r.value)
       IN countLoop(c.w, id, predicate, IF c.b THEN cnt + 1 ELSE cnt)

countLoop(w, id, predicate, cnt) == countItem(next(w, id), id, predicate, cnt)

count(w, id, predicate) == countLoop(w, id, predicate, 0)

\* length(): ArrayEnumerable answers with the length of its array, every
\* other sequence with this.count().
length(w, id) ==
  IF w.h[id].cls = "Array" THEN [w |-> w, v |-> Len(w.h[id]._array)]
  ELSE count(w, id, "undefined")

\* return this.length() < 1, l being what this.length() gave
isEmptyOf(l) == [w |-> l.w, v |-> l.v < 1]

isEmpty(w, id) == isEmptyOf(length(w, id))

RECURSIVE canReset(_, _)
\* Grouping.key
key(h, id) == h[id]._key

canReset(h, id) ==
  CASE h[id].cls = "Array" -> TRUE
    [] h[id].cls = "Iterator" -> FALSE
    [] OTHER -> canReset(h, h[id]._sequence)

\* reset(): [w, threw], threw when the call ends in 'Not supported'.
\* A faulty variant of reset, which rewinds the index of an iterator-backed
\* sequence instead of throwing.
RECURSIVE resetRewinding(_, _)
resetRewinding(w, id) ==
  CASE w.h[id].cls \in {"Array", "Iterator"} ->
         [w |-> [w EXCEPT !.h[id]._index = -1, !.pulls[id] = 0],
          threw |-> FALSE]
    [] OTHER ->
         LET r == resetRewinding(w, w.h[id]._sequence)
         IN IF r.threw THEN r ELSE [r EXCEPT !.w.pulls[id] = 0]

RECURSIVE reset(_, _)
reset(w, id) ==
  CASE w.h[id].cls = "Array" ->
         [w |-> [w EXCEPT !.h[id]._index = -1, !.pulls[id] = 0],
          threw |-> FALSE]
    [] w.h[id].cls = "Iterator" -> [w |-> w, threw |-> TRUE]
    [] OTHER ->
         LET r == reset(w, w.h[id]._sequence)
         IN IF r.threw THEN r ELSE [r EXCEPT !.w.pulls[id] = 0]

\* The getters: a wrapper answers current with its wrapped sequence's, and
\* inherits index from EnumerableBase.
RECURSIVE current(_, _)
current(h, id) ==
  IF h[id].cls \in {"Array", "Iterator"} THEN h[id]._current
  ELSE current(h, h[id]._sequence)

index(h, id) == h[id]._index

(***************************************************************************)
(* Operators that materialize a second sequence when they are called.      *)
(***************************************************************************)
\* What is read off the groups a groupBy(...).toArray() gave: for each, its
\* key, its toArray() and its key afterwards.
RECURSIVE GroupsFrom(_, _, _)
GroupValues(a, id, before, groups, acc) ==
  GroupsFrom(a.w, Tail(groups),
             Append(acc, [key |-> before, values |-> a.v,
                          keyAfter |-> key(a.w.h, id)]))

GroupsFrom(w, groups, acc) ==
  IF groups = <<>>
  THEN [w |-> w, v |-> acc]
  ELSE GroupValues(toArray(w, groups[1].n), groups[1].n,
                   key(w.h, groups[1].n), groups, acc)

GroupsOf(a) == GroupsFrom(a.w, a.v, <<>>)

groupByOf(o, keySelector, cmp) == groupBy(o.w, o.id, keySelector, cmp)

\* seq.groupBy(keySelector).select(grp => ({key: grp.key, values:
\* grp.toArray()})).toArray(): [w, v]
createGroupArrayForSequence(w, seq, keySelector) ==
  GroupsOf(toArrayOf(groupBy(w, seq, keySelector, "undefined")))

\* o.distinct()
distinctOf(o) == distinct(o.w, o.id, "undefined")

\* from(second).distinct().toArray(): [w, v]
distinctArray(w, second) == toArrayOf(distinctOf(fromArray(w, second)))

\* from(this._exceptInner(second.v, comparer)) in the world second.w, and the
\* same for intersect
setInner(kind, second, this, comparer) ==
  fromIterator(second.w,
    [Generator(kind, this, "undefined", "", comparer, 0, <<>>)
       EXCEPT !.args = second.v])

except(w, this, second, comparer) ==
  setInner("except", distinctArray(w, second), this, comparer)

intersect(w, this, second, comparer) ==
  setInner("intersect", distinctArray(w, second), this, comparer)

\* join(inner, outerKeySelector, innerKeySelector, undefined,
\* keyEqualityComparer), from(inner) being o.id in the world o.w: a key
\* selector left out is the other one, and the identity when both are.
groupJoinInto(o, this, outerKeySelector, innerKeySelector, keyEqualityComparer) ==
  fromIterator(o.w,
    [Generator("groupJoin", this,
               IF outerKeySelector = "undefined" THEN innerKeySelector
               ELSE outerKeySelector,
               "", keyEqualityComparer, 0, <<>>)
       EXCEPT !.args = <<o.id,
                         IF innerKeySelector = "undefined"
                         THEN outerKeySelector ELSE innerKeySelector>>])

groupJoin(w, this, inner, outerKeySelector, innerKeySelector, keyEqualityComparer) ==
  groupJoinInto(fromArray(w, inner), this, outerKeySelector, innerKeySelector,
                keyEqualityComparer)

joinInto(o, this, outerKeySelector, innerKeySelector, keyEqualityComparer) ==
  fromIterator(o.w,
    [Generator("join", this,
               IF outerKeySelector = "undefined" THEN innerKeySelector
               ELSE outerKeySelector,
               "", keyEqualityComparer, 0, <<>>)
       EXCEPT !.args = <<o.id,
                         IF innerKeySelector = "undefined"
                         THEN outerKeySelector ELSE innerKeySelector>>])

join(w, this, inner, outerKeySelector, innerKeySelector, keyEqualityComparer) ==
  joinInto(fromArray(w, inner), this, outerKeySelector, innerKeySelector,
           keyEqualityComparer)

(***************************************************************************)
(* The ordering subsystem.  An ordered sequence keeps its selector and its *)
(* comparer as the list of levels they were composed from: thenBy() nests  *)
(* the previous selector and comparer inside new closures, so the key of x *)
(* under <<s1, s2, s3>> is <<<<s1(x), s2(x)>>, s3(x)>>.                    *)
(***************************************************************************)
Comparers == {"undefined", "mod3"}

\* toComparerSafe(comparer)(x, y)
toComparerSafe(cmp, x, y) ==
  CASE cmp = "mod3" -> (ToNumber(x) % 3) - (ToNumber(y) % 3)
    [] OTHER ->
         IF StrictEquals(x, y) THEN 0
         ELSE IF LessThan(x, y) THEN -1
         ELSE IF LessThan(y, x) THEN 1
         ELSE 0

\* One level's comparer; the descending variants swap the arguments.
LevelComparer(c, x, y) ==
  IF c.desc THEN toComparerSafe(c.cmp, y, x) ELSE toComparerSafe(c.cmp, x, y)

RECURSIVE orderSelector(_, _, _)
orderSelector(w, sels, x) ==
  IF Len(sels) = 1
  THEN SelectorOrIdentity(w, sels[1], x)
  ELSE LET level_0 == orderSelector(w, SubSeq(sels, 1, Len(sels) - 1), x)
           level_1 == SelectorOrIdentity(level_0.w, sels[Len(sels)], x)
       IN [w |-> level_1.w, v |-> <<level_0.v, level_1.v>>]

RECURSIVE orderComparer(_, _, _)
orderComparer(cmps, x, y) ==
  IF Len(cmps) = 1
  THEN LevelComparer(cmps[1], x, y)
  ELSE LET COMP_0 == orderComparer(SubSeq(cmps, 1, Len(cmps) - 1), x[1], y[1])
           COMP_1 == LevelComparer(cmps[Len(cmps)], x[2], y[2])
       IN IF COMP_0 # 0 THEN COMP_0
          ELSE IF COMP_1 # 0 THEN COMP_1
          ELSE 0

\* The comparer the constructor hands to Array.prototype.sort.
SortComparer(cmps, x, y) == orderComparer(cmps, x.sortBy, y.sortBy)

\* A faulty variant of SortInsert, which puts an element before the elements
\* it compares equal to.
RECURSIVE SortInsertUnstable(_, _, _)
SortInsertUnstable(sorted, e, cmps) ==
  IF sorted = <<>> THEN <<e>>
  ELSE IF SortComparer(cmps, sorted[Len(sorted)], e) >= 0
  THEN Append(SortInsertUnstable(SubSeq(sorted, 1, Len(sorted) - 1), e, cmps),
              sorted[Len(sorted)])
  ELSE Append(sorted, e)

\* Array.prototype.sort with a comparer: a stable sort (ECMAScript 2019).
RECURSIVE SortInsert(_, _, _)
SortInsert(sorted, e, cmps) ==
  IF sorted = <<>> THEN <<e>>
  ELSE IF SortComparer(cmps, sorted[Len(sorted)], e) > 0
  THEN Append(SortInsert(SubSeq(sorted, 1, Len(sorted) - 1), e, cmps),
              sorted[Len(sorted)])
  ELSE Append(sorted, e)

RECURSIVE ArraySort(_, _)
ArraySort(arr, cmps) ==
  IF arr = <<>> THEN <<>>
  ELSE SortInsert(ArraySort(SubSeq(arr, 1, Len(arr) - 1), cmps),
                  arr[Len(arr)], cmps)

\* _originalItems.map(x => ({sortBy: ME.selector(x), value: x}))
RECURSIVE Decorate(_, _, _, _)
Decorate(w, items, sels, acc) ==
  IF items = <<>> THEN [w |-> w, v |-> acc]
  ELSE LET k == orderSelector(w, sels, Head(items))
       IN Decorate(k.w, Tail(items), sels,
                   Append(acc, [sortBy |-> k.v, value |-> Head(items)]))

\* .sort(...).map(x => x.value)
SortedValues(sorted) == [i \in 1..Len(sorted) |-> sorted[i].value]

\* super(seq) and the assignments of the constructor: inner is
\* from(sorted values)
Wrap(inner, _originalItems, sels, cmps) ==
  New(inner.w,
      [EnumerableBase("Ordered") EXCEPT
         !._sequence = inner.id,
         !._originalItems = _originalItems,
         !._orderSelector = sels,
         !._orderComparer = cmps])

\* The constructor from this._originalItems = seq.toArray() on: decorated is
\* the mapped array.
SortDecorated(decorated, _originalItems, sels, cmps) ==
  Wrap(fromArray(decorated.w, SortedValues(ArraySort(decorated.v, cmps))),
       _originalItems, sels, cmps)

SortItems(items, sels, cmps) ==
  SortDecorated(Decorate(items.w, items.v, sels, <<>>), items.v, sels, cmps)

\* new OrderedEnumerable(seq, selector, comparer)
OrderedEnumerable(w, seq, sels, cmps) == SortItems(toArray(w, seq), sels, cmps)

orderBy(w, this, selector, comparer) ==
  OrderedEnumerable(w, this, <<selector>>,
                    <<[cmp |-> comparer, desc |-> FALSE]>>)

orderByDescending(w, this, selector, comparer) ==
  OrderedEnumerable(w, this, <<selector>>,
                    <<[cmp |-> comparer, desc |-> TRUE]>>)

\* A faulty variant of thenBy, which sorts the sorted output of the sequence
\* it is called on by the new level alone.
thenByResorting(w, this, selector, comparer) ==
  LET o == w.h[this]
      src == fromArray(w, w.h[o._sequence]._array)
  IN OrderedEnumerable(src.w, src.id, <<selector>>,
                       <<[cmp |-> comparer, desc |-> FALSE]>>)

thenBy(w, this, selector, comparer) ==
  LET o == w.h[this]
      src == fromArray(w, o._originalItems)
  IN OrderedEnumerable(src.w, src.id,
                       Append(o._orderSelector, selector),
                       Append(o._orderComparer,
                              [cmp |-> comparer, desc |-> FALSE]))

thenByDescending(w, this, selector, comparer) ==
  LET o == w.h[this]
      src == fromArray(w, o._originalItems)
  IN OrderedEnumerable(src.w, src.id,
                       Append(o._orderSelector, selector),
                       Append(o._orderComparer,
                              [cmp |-> comparer, desc |-> TRUE]))

(***************************************************************************)
(* Folds.  The elements folded are numbers.                                *)
(***************************************************************************)
\* The functions sum() and product() pass to aggregate():
\* (acc, x) => IS_EMPTY !== acc ? acc + x : x, and the same with *.
AggregateFunc(func, acc, x) ==
  IF acc = IS_EMPTY THEN x
  ELSE IF func = "product" THEN Num(acc.n * x.n)
  ELSE Num(acc.n + x.n)

\* for (let item of this) acc = _func(acc, item): p is what this.next() gave
RECURSIVE aggregateLoop(_, _, _, _)
aggregateItem(p, id, func, acc) ==
  IF p.r.done THEN [w |-> p.w, v |-> acc]
  ELSE aggregateLoop(p.w, id, func, AggregateFunc(func, acc, p.r.value))

aggregateLoop(w, id, func, acc) == aggregateItem(next(w, id), id, func, acc)

aggregate(w, id, func, seed) == aggregateLoop(w, id, func, seed)

\* A faulty variant of sum, which starts from 0.
sumFromZero(w, id) == aggregate(w, id, "sum", Num(0))

sum(w, id) == aggregate(w, id, "sum", IS_EMPTY)

product(w, id) == aggregate(w, id, "product", IS_EMPTY)

\* The loop of max() (m = "max") and of min() (m = "min"): st holds result,
\* maxValue or minValue, and isFirst.
RECURSIVE extremumLoop(_, _, _, _, _, _)
extremumItem(p, id, m, valueSelector, comparer, st) ==
  IF p.r.done THEN [w |-> p.w, v |-> st.result]
  ELSE LET c == SelectorOrIdentity(p.w, valueSelector, p.r.value)
           UPDATE_RESULT ==
             [result |-> p.r.value, value |-> c.v, isFirst |-> FALSE]
       IN extremumLoop(c.w, id, m, valueSelector, comparer,
            IF st.isFirst THEN UPDATE_RESULT
            ELSE IF m = "max" /\ toComparerSafe(comparer, c.v, st.value) > 0
            THEN UPDATE_RESULT
            ELSE IF m = "min" /\ toComparerSafe(comparer, c.v, st.value) < 0
            THEN UPDATE_RESULT
            ELSE st)

extremumLoop(w, id, m, valueSelector, comparer, st) ==
  extremumItem(next(w, id), id, m, valueSelector, comparer, st)

max(w, id, valueSelector, comparer) ==
  extremumLoop(w, id, "max", valueSelector, comparer,
               [result |-> IS_EMPTY, value |-> Undef, isFirst |-> TRUE])

min(w, id, valueSelector, comparer) ==
  extremumLoop(w, id, "min", valueSelector, comparer,
               [result |-> IS_EMPTY, value |-> Undef, isFirst |-> TRUE])

\* The loop of average(): cnt is count, total is sum.
RECURSIVE averageLoop(_, _, _, _)
averageItem(p, id, cnt, total) ==
  IF p.r.done
  THEN [w |-> p.w, v |-> IF cnt > 0 THEN Ratio(total, cnt) ELSE IS_EMPTY]
  ELSE averageLoop(p.w, id, cnt + 1, total + p.r.value.n)

averageLoop(w, id, cnt, total) == averageItem(next(w, id), id, cnt, total)

\* The loop over o.id, which is this.select(selector)
averageOver(o) == averageLoop(o.w, o.id, 0, 0)

average(w, id, selector) == averageOver(select(w, id, selector))

(***************************************************************************)
(* Traversals that invoke an action or check a condition.  Each returns    *)
(* [w, threw, v]: v is the value returned, or the value thrown.            *)
(***************************************************************************)
FunctionError(err, func, i) ==
  [t |-> "FunctionError", error |-> err, function |-> func, index |-> i]

\* A faulty variant of AggregateError, which keeps the first error only.
AggregateErrorFirst(errors) ==
  [t |-> "AggregateError", errors |-> SubSeq(errors, 1, 1)]

AggregateError(errors) ==
  [t |-> "AggregateError",
   errors |-> SelectSeq(errors, LAMBDA e : ~isNullOrUndefined(e))]

\* forAll's loop: p is what this.next() gave, i the index of that item
RECURSIVE forAllLoop(_, _, _, _, _)
forAllCaught(c, id, action, i, ERRORS) ==
  forAllLoop(c.w, id, action, i + 1,
             IF c.threw THEN Append(ERRORS, FunctionError(c.e, action, i))
             ELSE ERRORS)

forAllItem(p, id, action, i, ERRORS) ==
  IF p.r.done
  THEN IF Len(ERRORS) > 0
       THEN [w |-> p.w, threw |-> TRUE, v |-> AggregateError(ERRORS)]
       ELSE [w |-> p.w, threw |-> FALSE, v |-> Obj(id)]
  ELSE IF action = "undefined"
  THEN forAllLoop(p.w, id, action, i + 1, ERRORS)
  ELSE forAllCaught(Act(p.w, action, p.r.value, i), id, action, i, ERRORS)

forAllLoop(w, id, action, i, ERRORS) ==
  forAllItem(next(w, id), id, action, i, ERRORS)

forAll(w, id, action) == forAllLoop(w, id, action, 0, <<>>)

\* A faulty variant of forEach, which goes through the whole sequence and
\* then throws what the first failed invocation threw.
forEachDraining(w, id, action) ==
  LET r == forAll(w, id, action)
  IN IF r.threw THEN [r EXCEPT !.v = r.v.errors[1].error] ELSE r

\* forEach's loop: p is what this.next() gave, i the index of that item
RECURSIVE forEachLoop(_, _, _, _)
forEachActed(c, id, action, i) ==
  IF c.threw THEN [w |-> c.w, threw |-> TRUE, v |-> c.e]
  ELSE forEachLoop(c.w, id, action, i + 1)

forEachItem(p, id, action, i) ==
  IF p.r.done
  THEN [w |-> p.w, threw |-> FALSE, v |-> Obj(id)]
  ELSE IF action = "undefined"
  THEN forEachLoop(p.w, id, action, i + 1)
  ELSE forEachActed(Act(p.w, action, p.r.value, i), id, action, i)

forEachLoop(w, id, action, i) == forEachItem(next(w, id), id, action, i)

forEach(w, id, action) == forEachLoop(w, id, action, 0)

\* toItemMessageSafe(undefined)(item, index): the string
\* 'Condition failed at index ' followed by the index.
toItemMessageSafe(item, i) == [t |-> "message", n |-> i]

\* assert's loop: p is what this.next() gave, i the index of that item
RECURSIVE assertLoop(_, _, _, _)
assertChecked(c, item, id, predicate, i) ==
  IF ~c.b
  THEN [w |-> c.w, threw |-> TRUE, v |-> toItemMessageSafe(item, i)]
  ELSE assertLoop(c.w, id, predicate, i + 1)

assertItem(p, id, predicate, i) ==
  IF p.r.done
  THEN [w |-> p.w, threw |-> FALSE, v |-> Obj(id)]
  ELSE assertChecked(toPredicateSafe(p.w, [NoGen EXCEPT !.fn = predicate],
                                     p.r.value),
                     p.r.value, id, predicate, i)

assertLoop(w, id, predicate, i) == assertItem(next(w, id), id, predicate, i)

assert(w, id, predicate) == assertLoop(w, id, predicate, 0)

(***************************************************************************)
(* Lookups.  args are the arguments of the call, as values; a predicate    *)
(* is a function or is omitted.  Each returns [w, threw, v].               *)
(***************************************************************************)
\* arguments[k - 1], undefined when the call has fewer arguments
Arg(args, k) == IF k <= Len(args) THEN args[k] ELSE Undef

\* The name the model has for a predicate argument.
PredicateName(v) == IF v.t = "function" THEN v.n ELSE "undefined"

\* A faulty variant of getOrDefaultArguments, which takes no default value.
getOrDefaultArgumentsNoDefault(predicateOrDefaultValue, defaultValue, paramCount) ==
  [defaultValue |-> NOT_FOUND,
   predicate |-> IF paramCount < 1 THEN "undefined"
                 ELSE PredicateName(predicateOrDefaultValue)]

getOrDefaultArguments(predicateOrDefaultValue, defaultValue, paramCount) ==
  IF paramCount < 1
  THEN [defaultValue |-> NOT_FOUND, predicate |-> "undefined"]
  ELSE IF paramCount < 2
  THEN IF predicateOrDefaultValue.t = "function"
       THEN [defaultValue |-> NOT_FOUND,
             predicate |-> predicateOrDefaultValue.n]
       ELSE [defaultValue |-> predicateOrDefaultValue,
             predicate |-> "undefined"]
  ELSE [defaultValue |-> defaultValue,
        predicate |-> PredicateName(predicateOrDefaultValue)]

\* ARGS.predicate(item)
ArgsPredicate(w, ARGS, item) ==
  toPredicateSafe(w, [NoGen EXCEPT !.fn = ARGS.predicate], item)

Returns(w, v) == [w |-> w, threw |-> FALSE, v |-> v]
ThrowsValue(w, v) == [w |-> w, threw |-> TRUE, v |-> v]

\* if (ELEMENT_NOT_FOUND === RESULT) throw "Element not found"
OrNotFound(r) ==
  IF ~r.threw /\ r.v = ELEMENT_NOT_FOUND THEN ThrowsValue(r.w, NotFoundError)
  ELSE r

\* firstOrDefault's loop: p is what this.next() gave
RECURSIVE firstLoop(_, _, _)
firstTested(c, item, id, ARGS) ==
  IF c.b THEN Returns(c.w, item) ELSE firstLoop(c.w, id, ARGS)

firstItem(p, id, ARGS) ==
  IF p.r.done THEN Returns(p.w, ARGS.defaultValue)
  ELSE firstTested(ArgsPredicate(p.w, ARGS, p.r.value), p.r.value, id, ARGS)

firstLoop(w, id, ARGS) == firstItem(next(w, id), id, ARGS)

firstOrDefault(w, id, args) ==
  firstLoop(w, id,
            getOrDefaultArguments(Arg(args, 1), Arg(args, 2), Len(args)))

\* predicate is the function toPredicateSafe() made, which an omitted
\* predicate stands for here as well.
first(w, id, predicate) ==
  OrNotFound(firstOrDefault(w, id, <<predicate, ELEMENT_NOT_FOUND>>))

\* lastOrDefault's loop
RECURSIVE lastLoop(_, _, _, _)
lastTested(c, item, id, ARGS, result) ==
  lastLoop(c.w, id, ARGS, IF c.b THEN item ELSE result)

lastItem(p, id, ARGS, result) ==
  IF p.r.done
  THEN Returns(p.w, IF result # ELEMENT_NOT_FOUND THEN result
                    ELSE ARGS.defaultValue)
  ELSE lastTested(ArgsPredicate(p.w, ARGS, p.r.value), p.r.value, id, ARGS,
                  result)

lastLoop(w, id, ARGS, result) == lastItem(next(w, id), id, ARGS, result)

lastOrDefault(w, id, args) ==
  lastLoop(w, id,
           getOrDefaultArguments(Arg(args, 1), Arg(args, 2), Len(args)),
           ELEMENT_NOT_FOUND)

\* last(predicate)
lastElement(w, id, predicate) ==
  OrNotFound(lastOrDefault(w, id, <<predicate, ELEMENT_NOT_FOUND>>))

\* singleOrDefault's loop
RECURSIVE singleLoop(_, _, _, _)
singleTested(c, item, id, ARGS, result) ==
  IF ~c.b THEN singleLoop(c.w, id, ARGS, result)
  ELSE IF result # ELEMENT_NOT_FOUND THEN ThrowsValue(c.w, AmbiguousError)
  ELSE singleLoop(c.w, id, ARGS, item)

singleItem(p, id, ARGS, result) ==
  IF p.r.done
  THEN Returns(p.w, IF result # ELEMENT_NOT_FOUND THEN result
                    ELSE ARGS.defaultValue)
  ELSE singleTested(ArgsPredicate(p.w, ARGS, p.r.value), p.r.value, id, ARGS,
                    result)

singleLoop(w, id, ARGS, result) == singleItem(next(w, id), id, ARGS, result)

\* A faulty variant of singleOrDefault, which returns the first match.
singleOrDefaultFirst(w, id, args) == firstOrDefault(w, id, args)

singleOrDefault(w, id, args) ==
  singleLoop(w, id,
             getOrDefaultArguments(Arg(args, 1), Arg(args, 2), Len(args)),
             ELEMENT_NOT_FOUND)

single(w, id, predicate) ==
  OrNotFound(singleOrDefault(w, id, <<predicate, ELEMENT_NOT_FOUND>>))

\* elementAtOrDefault's loop: i is the index of the item before
RECURSIVE elementAtLoop(_, _, _, _, _)
elementAtItem(p, id, at, defaultValue, i) ==
  IF p.r.done THEN Returns(p.w, defaultValue)
  ELSE IF i + 1 = at THEN Returns(p.w, p.r.value)
  ELSE elementAtLoop(p.w, id, at, defaultValue, i + 1)

elementAtLoop(w, id, at, defaultValue, i) ==
  elementAtItem(next(w, id), id, at, defaultValue, i)

\* args[1] is the index, a number
elementAtOrDefault(w, id, args) ==
  elementAtLoop(w, id, args[1].n,
                IF Len(args) < 2 THEN NOT_FOUND ELSE args[2], -1)

elementAt(w, id, at) ==
  OrNotFound(elementAtOrDefault(w, id, <<at, ELEMENT_NOT_FOUND>>))

(***************************************************************************)
(* async(action, previousValue).  A task is the state the call leaves      *)
(* behind: the promise, the variables the closures share (i, prevVal,      *)
(* asyncResult) and, for each invocation of the action, the context it got *)
(* and what it has done with it so far (history: passed are the values it  *)
(* passed to resolve, calls the number of times it called resolve, cancel  *)
(* or reject or threw).  cause, reason and result are history as well:     *)
(* what led to the first call of ASYNC_COMPLETED, with what reason, and    *)
(* asyncResult at that time.                                               *)
(***************************************************************************)
NoTask ==
  [state |-> "none", value |-> Undef, action |-> "undefined",
   initial |-> Undef, i |-> -1, prevVal |-> Undef, asyncResult |-> Undef,
   invs |-> <<>>, cause |-> "none", reason |-> Undef, result |-> Undef,
   completions |-> 0]

\* ASYNC_COMPLETED(err); a settled promise ignores resolve() and reject().
ASYNC_COMPLETED(t, err, cause) ==
  LET noted == [t EXCEPT !.completions = @ + 1,
                         !.cause = IF @ = "none" THEN cause ELSE @,
                         !.reason = IF t.cause = "none" THEN err ELSE @,
                         !.result = IF t.cause = "none" THEN t.asyncResult
                                    ELSE @]
  IN IF t.state # "pending" THEN noted
     ELSE IF Truthy(err)
     THEN [noted EXCEPT !.state = "rejected", !.value = err]
     ELSE [noted EXCEPT !.state = "resolved", !.value = t.asyncResult]

\* The context object an invocation of the action gets.
CTX(t, ITEM) ==
  [index |-> t.i, isFirst |-> t.i = 0, item |-> ITEM.value,
   previousValue |-> t.prevVal, passed |-> <<>>, calls |-> 0,
   threw |-> FALSE]

\* NEXT_ITEM(): [t, w].  p is what this.next() gave; without an action,
\* CTX.resolve() is called at once.
RECURSIVE NEXT_ITEM(_, _)
NextItemPulled(t, p) ==
  IF p.r.done
  THEN [t |-> ASYNC_COMPLETED(t, Null, "exhausted"), w |-> p.w]
  ELSE IF t.action = "undefined"
  THEN NEXT_ITEM([t EXCEPT !.prevVal = Undef], p.w)
  ELSE [t |-> [t EXCEPT !.invs = Append(@, CTX(t, p.r))], w |-> p.w]

NEXT_ITEM(t, w) == NextItemPulled([t EXCEPT !.i = @ + 1], next(w, 1))

\* async(action, previousValue) up to the return of the promise
async(w, action, previousValue) ==
  NEXT_ITEM([NoTask EXCEPT !.state = "pending", !.action = action,
                           !.initial = previousValue,
                           !.prevVal = previousValue], w)

\* The invocation k of the action makes one more call.
Called(t, k) == [t EXCEPT !.invs[k].calls = @ + 1]

\* CTX.resolve(nextValue), called by the invocation k
CtxResolve(t, w, k, nextValue) ==
  NEXT_ITEM([Called(t, k) EXCEPT !.invs[k].passed = Append(@, nextValue),
                                 !.prevVal = nextValue], w)

\* CTX.cancel(result), and CTX.cancel() when args is empty
CtxCancel(t, w, k, args) ==
  [t |-> ASYNC_COMPLETED(
           [Called(t, k) EXCEPT !.asyncResult =
                                  IF Len(args) > 0 THEN args[1] ELSE @],
           Null, "cancel"),
   w |-> w]

\* CTX.reject(reason, result), CTX.reject(reason) and CTX.reject(); cause
\* tells a call by the action from the call in catch (e).
CtxReject(t, w, k, args, cause) ==
  [t |-> ASYNC_COMPLETED(
           [Called(t, k) EXCEPT !.asyncResult =
                                  IF Len(args) > 1 THEN args[2] ELSE @],
           Arg(args, 1), cause),
   w |-> w]

(***************************************************************************)
(* The cursor machine: a program that builds sequences and pulls them.     *)
(* last describes the step just taken; calls holds the user functions that *)
(* step invoked.                                                           *)
(***************************************************************************)
\* The source arrays: [1, 2, ..., n]
Arrays == {[i \in 1..n |-> Num(i)] : n \in 0..MaxLen}

\* The calls of lazy operators a program makes: the method, the function,
\* the count and the array it is given.
LazyCall(m, fn, n, arr) == [m |-> m, fn |-> fn, n |-> n, arr |-> arr]

LazyCalls ==
  {LazyCall("where", "even", Undef, <<>>),
   LazyCall("notEmpty", "undefined", Undef, <<>>),
   LazyCall("select", "inc", Undef, <<>>),
   LazyCall("selectMany", "dup", Undef, <<>>),
   LazyCall("distinct", "undefined", Undef, <<>>),
   LazyCall("distinctBy", "div2", Undef, <<>>),
   LazyCall("skip", "undefined", Num(1), <<>>),
   LazyCall("skipWhile", "even", Undef, <<>>),
   LazyCall("skipLast", "undefined", Undef, <<>>),
   LazyCall("take", "undefined", Num(1), <<>>),
   LazyCall("takeWhile", "positive", Undef, <<>>),
   LazyCall("concat", "undefined", Undef, <<Num(0)>>),
   LazyCall("prepend", "undefined", Undef, <<Num(0)>>),
   LazyCall("intersperse", "undefined", Undef, <<Num(0)>>),
   LazyCall("pipe", "inc", Undef, <<>>)}

\* The ones the cursor machine uses.
CursorCalls ==
  {LazyCall("where", "even", Undef, <<>>),
   LazyCall("select", "inc", Undef, <<>>),
   LazyCall("skip", "undefined", Num(1), <<>>),
   LazyCall("take", "undefined", Num(1), <<>>)}

Invoke(w, this, c) ==
  CASE c.m = "where" -> where(w, this, c.fn)
    [] c.m = "notEmpty" -> notEmpty(w, this)
    [] c.m = "select" -> select(w, this, c.fn)
    [] c.m = "selectMany" -> selectMany(w, this, c.fn)
    [] c.m = "distinct" -> distinct(w, this, c.fn)
    [] c.m = "distinctBy" -> distinctBy(w, this, c.fn, "undefined")
    [] c.m = "skip" -> skip(w, this, c.n)
    [] c.m = "skipWhile" -> skipWhile(w, this, c.fn)
    [] c.m = "skipLast" -> skipLast(w, this)
    [] c.m = "take" -> take(w, this, c.n)
    [] c.m = "takeWhile" -> takeWhile(w, this, c.fn)
    [] c.m = "concat" -> concat(w, this, c.arr)
    [] c.m = "prepend" -> prepend(w, this, c.arr)
    [] c.m = "intersperse" -> intersperse(w, this, c.arr)
    [] OTHER -> pipe(w, this, c.fn)

World == [h |-> heap, calls |-> <<>>, pulls |-> pulls]

EmptyWorld == [h |-> <<>>, calls |-> <<>>, pulls |-> <<>>]

Step(op, id, on, result, threw) ==
  [op |-> op, id |-> id, on |-> on, result |-> result, threw |-> threw]

Commit(w, l) ==
  /\ heap' = w.h
  /\ calls' = w.calls
  /\ pulls' = w.pulls
  /\ last' = l
  /\ resets' = IF l.op = "reset" THEN resets + 1 ELSE resets
  /\ UNCHANGED <<input, res, task>>

\* The step that made the sequence n.id, on the sequence on.
Built(op, n, on) == Commit(n.w, Step(op, n.id, on, <<>>, FALSE))

\* The step in which next() of id returned p.r.
Returned(p, id) == Commit(p.w, Step("next", id, id, <<p.r>>, FALSE))

\* The step in which reset() of id returned or threw.
WasReset(r, id) == Commit(r.w, Step("reset", id, id, <<>>, r.threw))

NoRes == [q |-> "none"]

Init ==
  /\ heap = <<>>
  /\ calls = <<>>
  /\ pulls = <<>>
  /\ resets = 0
  /\ last = Step("init", 0, 0, <<>>, FALSE)
  /\ input = <<>>
  /\ res = NoRes
  /\ task = NoTask

\* from(array)
From(arr) ==
  /\ heap = <<>>
  /\ Built("from", fromArray(World, arr), 0)

\* from(toIterator(array)): a generator-backed source
FromGenerator(arr) ==
  /\ heap = <<>>
  /\ Built("from",
           fromIterator(World, Generator("toIterator", 0, "undefined", "",
                                         "undefined", 0, arr)),
           0)

\* from(sequence): an existing sequence taken as the iterator
FromSequence(id) ==
  /\ Len(heap) < MaxObjs
  /\ Built("from", fromEnumerable(World, id), id)

\* heap[id].<lazy operator>(...)
Construct(id, c) ==
  /\ Len(heap) < MaxObjs
  /\ Built("construct", Invoke(World, id, c), id)

\* heap[id].orderBy(selector)
OrderBy(id, selector) ==
  /\ Len(heap) < MaxObjs
  /\ Built("orderBy", orderBy(World, id, selector, "undefined"), id)

\* heap[id].next()
Pull(id) == Returned(next(World, id), id)

\* heap[id].reset()
Reset(id) ==
  /\ resets < MaxResets
  /\ WasReset(reset(World, id), id)

NextStep ==
  \/ \E arr \in Arrays : From(arr)
  \/ \E arr \in Arrays : FromGenerator(arr)
  \/ \E id \in DOMAIN heap : FromSequence(id)
  \/ \E id \in DOMAIN heap, c \in CursorCalls : Construct(id, c)
  \/ \E id \in DOMAIN heap, s \in {"undefined", "mod2"} : OrderBy(id, s)
  \/ \E id \in DOMAIN heap : Pull(id)
  \/ \E id \in DOMAIN heap : Reset(id)

Spec == Init /\ [][NextStep]_vars

\* A program that only builds lazy operators and pulls.
NextLazy ==
  \/ \E arr \in Arrays : From(arr)
  \/ \E arr \in Arrays : FromGenerator(arr)
  \/ \E id \in DOMAIN heap, c \in LazyCalls : Construct(id, c)
  \/ \E id \in DOMAIN heap : Pull(id)

SpecLazy == Init /\ [][NextLazy]_vars

(***************************************************************************)
(* Properties of the cursor machine.                                       *)
(***************************************************************************)
\* What the sequence id would still yield if it were consumed now.
Remaining(h, id) ==
  toArray([h |-> h, calls |-> <<>>, pulls |-> [i \in DOMAIN h |-> 0]], id).v

\* The sequence j pulls from i, directly or through others (or is i).
RECURSIVE PullsFrom(_, _, _)
PullsFrom(h, j, i) ==
  \/ j = i
  \/ /\ j > i
     /\ \/ h[j]._iterator.this # 0 /\ PullsFrom(h, h[j]._iterator.this, i)
        \/ h[j]._sequence # 0 /\ PullsFrom(h, h[j]._sequence, i)

C2_IdempotentExhaustion ==
  [][\A id \in DOMAIN heap :
       (~canReset(heap, id) /\ current(heap, id) = <<DoneResult>>) =>
         /\ current(heap', id) = <<DoneResult>>
         /\ index(heap', id) = index(heap, id)]_vars

\* C3: index is the number of elements next() has returned, minus one (-1
\* before the first pull), for every sequence.
C3_IndexCountsPulls ==
  \A id \in DOMAIN heap : index(heap, id) = pulls[id] - 1

C5_ResetRestoresInitialState ==
  (last.op = "reset" /\ heap[last.id].cls = "Array") =>
    /\ index(heap, last.id) = -1
    /\ current(heap, last.id) = <<>>
    /\ Remaining(heap, last.id) = heap[last.id]._array

(***************************************************************************)
(* Queries: a source is drawn, and each action builds a pipeline over a    *)
(* fresh sequence on it, consumes it and records what came out.            *)
(***************************************************************************)
QueryValues ==
  {Num(0), Num(1), Num(2), Num(3), Str(0), EmptyStr, Undef, Null}

QueryArrays == UNION {[1..n -> QueryValues] : n \in 0..MaxQueryLen}

SourceKinds == {"array", "generator"}

\* from(input), or from(toIterator(input))
Source(w, kind) ==
  IF kind = "array" THEN fromArray(w, input)
  ELSE fromIterator(w,
         Generator("toIterator", 0, "undefined", "", "undefined", 0, input))

AllNumbers == \A i \in 1..Len(input) : input[i].t = "number"

Result(q, kind, a, out, out2, n, n2, log) ==
  [q |-> q, kind |-> kind, a |-> a, out |-> out, out2 |-> out2, n |-> n,
   n2 |-> n2, calls |-> log]

Record(r) ==
  /\ res = NoRes
  /\ res' = r
  /\ UNCHANGED <<heap, calls, pulls, resets, last, input, task>>

InitQuery ==
  /\ heap = <<>>
  /\ calls = <<>>
  /\ pulls = <<>>
  /\ resets = 0
  /\ last = Step("init", 0, 0, <<>>, FALSE)
  /\ input \in QueryArrays
  /\ res = NoRes
  /\ task = NoTask

\* What a query gave: a is the toArray() the query is about, b another one
\* it is compared with.
Evaluated(q, kind, args, a, b, n, n2) ==
  Record(Result(q, kind, args, a.v, b.v, n, n2, a.w.calls))

Nothing == [v |-> <<>>]

\* where(p).toArray() (notEmpty().toArray() for m = "notEmpty"), count(p)
\* and count() and toArray(), each on a fresh sequence
EvalWhere(kind, m, p) ==
  LET s == Source(EmptyWorld, kind)
  IN Evaluated(m, kind, <<p>>,
               toArrayOf(IF m = "notEmpty" THEN notEmpty(s.w, s.id)
                         ELSE where(s.w, s.id, p)),
               toArray(s.w, s.id),
               count(s.w, s.id, p).v,
               count(s.w, s.id, "undefined").v)

\* o.select(f)
selectOf(o, f) == select(o.w, o.id, f)

\* select(f).select(g).toArray() and select(x => g(f(x))).toArray()
EvalSelect(kind, f, g) ==
  /\ AllNumbers
  /\ LET s == Source(EmptyWorld, kind)
     IN Evaluated("select", kind, <<f, g>>,
                  toArrayOf(selectOf(selectOf(s, f), g)),
                  toArrayOf(selectOf(s, Compose(g, f))), 0, 0)

\* One sort level: the key selector, the comparer, and whether the
\* descending variant of the method is called.
Level(sel, cmp, desc) == [sel |-> sel, cmp |-> cmp, desc |-> desc]

OrderLevels ==
  {Level(s, c, d) : s \in {"undefined", "mod2", "div2"},
                    c \in Comparers, d \in BOOLEAN}

ThenLevels ==
  {Level("mod2", "undefined", FALSE), Level("div2", "undefined", TRUE),
   Level("undefined", "mod3", FALSE)}

\* o.orderBy(k, cmp), or o.orderByDescending(k, cmp)
orderByLevel(o, l) ==
  IF l.desc THEN orderByDescending(o.w, o.id, l.sel, l.cmp)
  ELSE orderBy(o.w, o.id, l.sel, l.cmp)

\* o.thenBy(k, cmp), or o.thenByDescending(k, cmp)
thenByLevel(o, l) ==
  IF l.desc THEN thenByDescending(o.w, o.id, l.sel, l.cmp)
  ELSE thenBy(o.w, o.id, l.sel, l.cmp)

\* orderBy(k, cmp).toArray(), or orderByDescending(k, cmp).toArray()
EvalOrderBy(kind, l) ==
  /\ AllNumbers
  /\ Evaluated("orderBy", kind, <<l>>,
               toArrayOf(orderByLevel(Source(EmptyWorld, kind), l)),
               Nothing, 0, 0)

RECURSIVE thenByChain(_, _)
thenByChain(o, levels) ==
  IF levels = <<>> THEN o
  ELSE thenByChain(thenByLevel(o, Head(levels)), Tail(levels))

\* a is toArray() of the end of the chain; then toArray() and index of the
\* sequence o1 the chain started from
ThenByResult(o1, a, levels) ==
  Evaluated("thenBy", "array", levels, a, toArray(a.w, o1.id),
            index(a.w.h, o1.id), 0)

ThenByOver(o1, levels) ==
  ThenByResult(o1, toArrayOf(thenByChain(o1, Tail(levels))), levels)

\* orderBy(k1).thenBy(k2)...thenBy(kn).toArray(), and then toArray() of the
\* sequence orderBy(k1) returned
EvalThenBy(levels) ==
  /\ AllNumbers
  /\ ThenByOver(orderByLevel(Source(EmptyWorld, "array"), Head(levels)),
                levels)

\* distinct(comparer).toArray()
EvalDistinct(kind, cmp) ==
  LET s == Source(EmptyWorld, kind)
  IN Evaluated("distinct", kind, <<cmp>>,
               toArrayOf(distinct(s.w, s.id, cmp)), Nothing, 0, 0)

LevelSeqs == UNION {[1..n -> ThenLevels] : n \in 2..MaxLevels}

NextQuery ==
  \/ \E k \in SourceKinds, p \in Predicates \cup {"undefined"} :
       EvalWhere(k, "where", p)
  \/ \E k \in SourceKinds : EvalWhere(k, "notEmpty", "truthy")
  \/ \E k \in SourceKinds, f, g \in {"inc", "dbl"} : EvalSelect(k, f, g)
  \/ \E k \in SourceKinds, l \in OrderLevels : EvalOrderBy(k, l)
  \/ \E ls \in LevelSeqs : EvalThenBy(ls)
  \/ \E k \in SourceKinds, c \in EqualityComparers : EvalDistinct(k, c)

SpecQuery == InitQuery /\ [][NextQuery]_vars

(***************************************************************************)
(* What the queries are expected to produce.                               *)
(***************************************************************************)
\* p holds of x ("undefined": no predicate was given)
Satisfies(p, x) == IF p = "undefined" THEN TRUE ELSE Truthy(Apply(p, x))

\* The key of x at a sort level, and the level's comparison of two keys.
KeyOf(l, x) == IF l.sel = "undefined" THEN x ELSE Apply(l.sel, x)

CompareAt(l, x, y) ==
  IF l.desc THEN toComparerSafe(l.cmp, KeyOf(l, y), KeyOf(l, x))
  ELSE toComparerSafe(l.cmp, KeyOf(l, x), KeyOf(l, y))

\* The lexicographic comparison of x and y by the levels: the first level
\* that tells them apart decides.
LexCompare(levels, x, y) ==
  LET D == {k \in 1..Len(levels) : CompareAt(levels[k], x, y) # 0}
  IN IF D = {} THEN 0
     ELSE CompareAt(levels[CHOOSE k \in D : \A j \in D : k <= j], x, y)

Rearrangements(n) ==
  {f \in [1..n -> 1..n] : \A i, j \in 1..n : f[i] = f[j] => i = j}

\* out is src sorted by the levels, elements that tie on every level
\* staying in the order they have in src.
IsStableSort(out, src, levels) ==
  /\ Len(out) = Len(src)
  /\ \E f \in Rearrangements(Len(src)) :
       /\ \A i \in 1..Len(out) : out[i] = src[f[i]]
       /\ \A i, j \in 1..Len(out) :
            i < j => LET c == LexCompare(levels, out[i], out[j])
                     IN c <= 0 /\ (c = 0 => f[i] < f[j])

\* cmp is reflexive, symmetric and transitive on the elements of src.
IsEquivalenceOn(cmp, src) ==
  LET S == {src[i] : i \in 1..Len(src)}
      E(x, y) == toEqualityComparerSafe(cmp, x, y)
  IN /\ \A x \in S : E(x, x)
     /\ \A x, y \in S : E(x, y) => E(y, x)
     /\ \A x, y, z \in S : E(x, y) /\ E(y, z) => E(x, z)

\* The elements of src no earlier element equals, in order.
RECURSIVE FirstOccurrences(_, _, _)
FirstOccurrences(cmp, src, n) ==
  IF n = 0 THEN <<>>
  ELSE LET before == FirstOccurrences(cmp, src, n - 1)
       IN IF \E j \in 1..(n - 1) : toEqualityComparerSafe(cmp, src[n], src[j])
          THEN before
          ELSE Append(before, src[n])

\* C6: where(p) yields exactly the source elements that satisfy p, in source
\* order, each once: where without a predicate yields what toArray() of the
\* source does, notEmpty() yields exactly the truthy elements, count(p) on a
\* fresh sequence is the number of elements where(p) yields, and count() is
\* the length of toArray().
C6_WhereFilters ==
  /\ res.q = "where" =>
       /\ res.out = SelectSeq(input, LAMBDA x : Satisfies(res.a[1], x))
       /\ res.n = Len(res.out)
       /\ res.a[1] = "undefined" => res.out = res.out2
  /\ res.q = "notEmpty" =>
       /\ res.out = SelectSeq(input, Truthy)
       /\ res.n = Len(res.out)
  /\ res.q \in {"where", "notEmpty"} =>
       /\ res.out2 = input
       /\ res.n2 = Len(res.out2)

\* C6's case: where(even) over a generator-backed source kept some elements
\* and dropped others, one of them between two it kept.
C6_Witness ==
  /\ res.q = "where"
  /\ res.kind = "generator"
  /\ res.a = <<"even">>
  /\ Len(input) = 3
  /\ res.out = <<input[1], input[3]>>
  /\ res.n = 2

\* C7: select(f).select(g) yields the same elements in the same order as
\* select(x => g(f(x))), one per source element, and f and g are each
\* applied exactly once per source element (f to the element, g to f's
\* result, element by element).
C7_SelectComposes ==
  res.q = "select" =>
    /\ res.out = res.out2
    /\ res.out = [i \in 1..Len(input) |->
                    Apply(res.a[2], Apply(res.a[1], input[i]))]
    /\ res.calls = [i \in 1..(2 * Len(input)) |->
                      IF i % 2 = 1
                      THEN <<res.a[1], input[(i + 1) \div 2]>>
                      ELSE <<res.a[2], Apply(res.a[1], input[i \div 2])>>]

\* C7's case: select(inc).select(dbl) ran over three numbers.
C7_Witness ==
  /\ res.q = "select"
  /\ res.a = <<"inc", "dbl">>
  /\ input = <<Num(2), Num(0), Num(1)>>
  /\ res.out = <<Num(6), Num(2), Num(4)>>

\* C8: orderBy(k, cmp).toArray() is a permutation of the source that is
\* non-decreasing in key under the comparer, and any two elements whose
\* keys compare equal appear in their original relative order.
C8_OrderByStable ==
  res.q = "orderBy" => IsStableSort(res.out, input, res.a)

\* C8's case: the sort moved elements, and two different elements whose keys
\* compare equal are in the result.
C8_Witness ==
  /\ res.q = "orderBy"
  /\ res.out # input
  /\ \E i, j \in 1..Len(res.out) :
       /\ i < j
       /\ res.out[i] # res.out[j]
       /\ LexCompare(res.a, res.out[i], res.out[j]) = 0

\* C9: orderBy(k1).thenBy(k2)...thenBy(kn).toArray() is the stable sort of
\* the source by the lexicographic key (k1, ..., kn): the result is ordered
\* by every prefix of the levels, elements tying on every level keep their
\* original relative order, and the sequence orderBy(k1) returned still
\* yields the source sorted by k1 alone, from its start.
C9_ThenByLexicographic ==
  res.q = "thenBy" =>
    /\ IsStableSort(res.out, input, res.a)
    /\ \A k \in 1..Len(res.a) : \A i, j \in 1..Len(res.out) :
         i < j => LexCompare(SubSeq(res.a, 1, k), res.out[i], res.out[j]) <= 0
    /\ IsStableSort(res.out2, input, <<res.a[1]>>)
    /\ res.n = -1

\* C9's case: a chain of three levels whose third level decided between two
\* elements the first two tie on, with a result that is neither the source
\* nor the first level's ordering.
C9_Witness ==
  /\ res.q = "thenBy"
  /\ Len(res.a) = 3
  /\ res.out # input
  /\ res.out # res.out2
  /\ \E i, j \in 1..Len(res.out) :
       /\ i < j
       /\ LexCompare(SubSeq(res.a, 1, 2), res.out[i], res.out[j]) = 0
       /\ LexCompare(res.a, res.out[i], res.out[j]) < 0

\* C10: for an equality comparer that is an equivalence on the source's
\* elements, distinct(comparer).toArray() is the subsequence of first
\* occurrences: no two output elements are equal under the comparer, every
\* source element is equal to exactly one output element, and the output is
\* in first-occurrence order.
C10_DistinctFirstOccurrences ==
  res.q = "distinct" /\ IsEquivalenceOn(res.a[1], input) =>
    LET E(x, y) == toEqualityComparerSafe(res.a[1], x, y)
        out == res.out
    IN /\ out = FirstOccurrences(res.a[1], input, Len(input))
       /\ \A i, j \in 1..Len(out) : i # j => ~E(out[i], out[j])
       /\ \A i \in 1..Len(input) :
            Cardinality({j \in 1..Len(out) : E(input[i], out[j])}) = 1

\* C10's case: the third element repeats the first under the comparer, with
\* an element of another class between them.
C10_Witness ==
  /\ res.q = "distinct"
  /\ IsEquivalenceOn(res.a[1], input)
  /\ Len(input) = 3
  /\ toEqualityComparerSafe(res.a[1], input[3], input[1])
  /\ ~toEqualityComparerSafe(res.a[1], input[2], input[1])
  /\ Len(res.out) = 2

(***************************************************************************)
(* Queries with eager operators, over sources of numbers.                  *)
(***************************************************************************)
NumberArrays ==
  UNION {[1..n -> {Num(0), Num(1), Num(2)}] : n \in 0..MaxQueryLen}

InitEager ==
  /\ heap = <<>>
  /\ calls = <<>>
  /\ pulls = <<>>
  /\ resets = 0
  /\ last = Step("init", 0, 0, <<>>, FALSE)
  /\ input \in NumberArrays
  /\ res = NoRes
  /\ task = NoTask

\* range(start, count).take(n).toArray(), range(start, count).skip(n)
\* .toArray() and range(start, count).toArray().  The source drawn plays no
\* part, so this is done where none was drawn.
EvalTakeSkip(start, len, n) ==
  /\ input = <<>>
  /\ LET s == range(EmptyWorld, Num(start), Num(len))
     IN Evaluated("takeSkip", "range", <<start, len, n>>,
                  toArrayOf(take(s.w, s.id, Num(n))),
                  toArrayOf(skip(s.w, s.id, Num(n))),
                  toArray(s.w, s.id).v, 0)

\* What a query gave, with the number of elements each sequence returned.
EvaluatedPulls(q, kind, args, a) ==
  Record(Result(q, kind, args, a.v, <<>>, a.w.pulls, 0, a.w.calls))

SecondArrays == UNION {[1..n -> {Num(1), Num(2)}] : n \in 0..MaxQueryLen}

\* zip(second, f).toArray()
zipOf(o, second, f) == zip(o.w, o.id, second, f)

EvalZip(kind, second, f) ==
  EvaluatedPulls("zip", kind, <<second, f>>,
                 toArrayOf(zipOf(Source(EmptyWorld, kind), second, f)))

\* groupBy(keySelector, comparer).toArray(), then each group's toArray()
EvalGroupBy(kind, keySelector, cmp) ==
  Evaluated("groupBy", kind, <<keySelector, cmp>>,
            GroupsOf(toArrayOf(groupByOf(Source(EmptyWorld, kind),
                                         keySelector, cmp))),
            Nothing, 0, 0)

\* What is read off the chunks a chunk(size).toArray() gave: for each, its
\* class and its toArray().
RECURSIVE ChunksFrom(_, _, _)
ChunkValues(a, cls, chunks, acc) ==
  ChunksFrom(a.w, Tail(chunks), Append(acc, [cls |-> cls, values |-> a.v]))

ChunksFrom(w, chunks, acc) ==
  IF chunks = <<>>
  THEN [w |-> w, v |-> acc]
  ELSE ChunkValues(toArray(w, chunks[1].n), w.h[chunks[1].n].cls, chunks, acc)

ChunksOf(a) == ChunksFrom(a.w, a.v, <<>>)

chunkOf(o, size) == chunk(o.w, o.id, size)

\* The sizes passed to chunk(): numbers, none, '' and null.
ChunkSizes == {Num(n) : n \in -1..MaxChunk} \cup {Undef, EmptyStr, Null}

\* range(start, count).chunk(size).toArray(), then each chunk's toArray();
\* and range(start, count).toArray().  As for take and skip, this is done
\* where no source was drawn.
EvalChunk(start, len, size) ==
  /\ input = <<>>
  /\ Evaluated("chunk", "range", <<start, len, size>>,
               ChunksOf(toArrayOf(chunkOf(range(EmptyWorld, Num(start),
                                                Num(len)), size))),
               toArrayOf(range(EmptyWorld, Num(start), Num(len))), 0, 0)

\* build(factory, count).toArray() and buildMany(factory, count).toArray(),
\* with the invocations of the factory.  No source takes part.
EvalBuild(m, factory, c, cnt) ==
  /\ input = <<>>
  /\ Evaluated(m, "build", <<factory, c, cnt>>,
               toArrayOf(IF m = "build" THEN build(EmptyWorld, factory, c, cnt)
                         ELSE buildMany(EmptyWorld, factory, c, cnt)),
               Nothing, 0, 0)

Folds == {"average", "sum", "product", "min", "max"}

\* The call of one of the folds, without arguments.
Fold(o, m) ==
  CASE m = "average" -> average(o.w, o.id, "undefined")
    [] m = "sum" -> sum(o.w, o.id)
    [] m = "product" -> product(o.w, o.id)
    [] m = "min" -> min(o.w, o.id, "undefined", "undefined")
    [] OTHER -> max(o.w, o.id, "undefined", "undefined")

EvalFold(kind, m) ==
  EvaluatedPulls(m, kind, <<>>, Fold(Source(EmptyWorld, kind), m))

\* What a call gave that returns a value or throws one.
Completed(q, kind, args, r) ==
  Record(Result(q, kind, args, r.v, r.threw, r.w.pulls, 0, r.w.calls))

forAllOf(o, action) == forAll(o.w, o.id, action)

EvalForAll(kind, action) ==
  Completed("forAll", kind, <<action>>,
            forAllOf(Source(EmptyWorld, kind), action))

forEachOf(o, action) == forEach(o.w, o.id, action)

EvalForEach(kind, action) ==
  Completed("forEach", kind, <<action>>,
            forEachOf(Source(EmptyWorld, kind), action))

assertOf(o, predicate) == assert(o.w, o.id, predicate)

EvalAssert(kind, predicate) ==
  Completed("assert", kind, <<predicate>>,
            assertOf(Source(EmptyWorld, kind), predicate))

\* The default values callers supply, and the argument lists of the
\* OrDefault lookups: (), (predicate), (defaultValue),
\* (predicate, defaultValue), (undefined, defaultValue).
Defaults == {Num(7), Undef}

OrDefaultArgs ==
  {<<>>} \cup {<<Fn(p)>> : p \in Predicates} \cup {<<d>> : d \in Defaults}
    \cup {<<Fn(p), d>> : p \in Predicates, d \in Defaults}
    \cup {<<Undef, d>> : d \in Defaults}

StrictArgs == {<<>>} \cup {<<Fn(p)>> : p \in Predicates}

Lookup(o, m, args) ==
  CASE m = "first" -> first(o.w, o.id, Arg(args, 1))
    [] m = "last" -> lastElement(o.w, o.id, Arg(args, 1))
    [] m = "single" -> single(o.w, o.id, Arg(args, 1))
    [] m = "elementAt" -> elementAt(o.w, o.id, args[1])
    [] m = "firstOrDefault" -> firstOrDefault(o.w, o.id, args)
    [] m = "lastOrDefault" -> lastOrDefault(o.w, o.id, args)
    [] m = "singleOrDefault" -> singleOrDefault(o.w, o.id, args)
    [] OTHER -> elementAtOrDefault(o.w, o.id, args)

EvalLookup(kind, m, args) ==
  Completed(m, kind, args, Lookup(Source(EmptyWorld, kind), m, args))

NextEager ==
  \/ \E kind \in SourceKinds, m \in {"first", "last", "single"},
        args \in StrictArgs :
       EvalLookup(kind, m, args)
  \/ \E kind \in SourceKinds,
        m \in {"firstOrDefault", "lastOrDefault", "singleOrDefault"},
        args \in OrDefaultArgs :
       EvalLookup(kind, m, args)
  \/ \E kind \in SourceKinds, at \in -1..MaxQueryLen :
       \/ EvalLookup(kind, "elementAt", <<Num(at)>>)
       \/ EvalLookup(kind, "elementAtOrDefault", <<Num(at)>>)
       \/ \E d \in Defaults :
            EvalLookup(kind, "elementAtOrDefault", <<Num(at), d>>)
  \/ \E kind \in SourceKinds, action \in EachActions :
       EvalForAll(kind, action)
  \/ \E kind \in SourceKinds, action \in EachActions :
       EvalForEach(kind, action)
  \/ \E kind \in SourceKinds, predicate \in Predicates \cup {"undefined"} :
       EvalAssert(kind, predicate)
  \/ \E kind \in SourceKinds, m \in Folds : EvalFold(kind, m)
  \/ \E kind \in SourceKinds, keySelector \in {"undefined", "mod2", "div2"},
        cmp \in EqualityComparers :
       EvalGroupBy(kind, keySelector, cmp)
  \/ \E kind \in SourceKinds, second \in SecondArrays, f \in ZipSelectors :
       EvalZip(kind, second, f)
  \/ \E start \in 0..2, len \in 0..MaxRange, n \in 0..(MaxRange + 1) :
       EvalTakeSkip(start, len, n)
  \/ \E start \in 0..1, len \in 0..MaxRange, size \in ChunkSizes :
       EvalChunk(start, len, size)
  \/ \E factory \in {"index", "keep"}, n \in -1..MaxBuild :
       EvalBuild("build", factory, 0, Num(n))
  \/ \E c \in 0..MaxBuild, cnt \in {Num(n) : n \in 0..MaxBuild} \cup {Undef} :
       EvalBuild("build", "indexUntil", c, cnt)
  \/ \E c \in 0..MaxBuild, cnt \in {Num(n) : n \in 0..MaxBuild} \cup {Undef} :
       EvalBuild("buildMany", "until", c, cnt)

SpecEager == InitEager /\ [][NextEager]_vars

(***************************************************************************)
(* Queries with operators that take a second sequence, over sources of     *)
(* values of several types.                                                *)
(***************************************************************************)
SetValues == {Num(0), Num(1), Str(0), EmptyStr, Undef, Null}

SetArrays == UNION {[1..n -> SetValues] : n \in 0..MaxSetLen}

InitSet ==
  /\ heap = <<>>
  /\ calls = <<>>
  /\ pulls = <<>>
  /\ resets = 0
  /\ last = Step("init", 0, 0, <<>>, FALSE)
  /\ input \in SetArrays
  /\ res = NoRes
  /\ task = NoTask

\* What a query gave whose operator o was just built: o.toArray(), with the
\* number of elements each sequence had returned when o was built.
BuiltThenEvaluated(q, kind, args, o) ==
  Record(Result(q, kind, args, toArrayOf(o).v, <<>>, o.w.pulls, 0, <<>>))

exceptOf(o, second, cmp) == except(o.w, o.id, second, cmp)

intersectOf(o, second, cmp) == intersect(o.w, o.id, second, cmp)

\* except(second, cmp).toArray()
EvalExcept(kind, second, cmp) ==
  BuiltThenEvaluated("except", kind, <<second, cmp>>,
                     exceptOf(Source(EmptyWorld, kind), second, cmp))

\* intersect(second, cmp).toArray()
EvalIntersect(kind, second, cmp) ==
  BuiltThenEvaluated("intersect", kind, <<second, cmp>>,
                     intersectOf(Source(EmptyWorld, kind), second, cmp))

joinOf(o, inner, outerKeySelector, innerKeySelector, cmp) ==
  join(o.w, o.id, inner, outerKeySelector, innerKeySelector, cmp)

\* The key selectors passed to join(): none, and x => !!x ? 1 : 0.
KeySelectors == {"undefined", "truthy"}

\* join(inner, outerKeySelector, innerKeySelector, undefined, cmp).toArray()
EvalJoin(kind, inner, outerKeySelector, innerKeySelector, cmp) ==
  BuiltThenEvaluated("join", kind,
                     <<inner, outerKeySelector, innerKeySelector, cmp>>,
                     joinOf(Source(EmptyWorld, kind), inner, outerKeySelector,
                            innerKeySelector, cmp))

groupJoinOf(o, inner, outerKeySelector, innerKeySelector, cmp) ==
  groupJoin(o.w, o.id, inner, outerKeySelector, innerKeySelector, cmp)

\* groupJoin(inner, outerKeySelector, innerKeySelector) with the default
\* result selector and the default comparer
EvalGroupJoin(kind, inner, outerKeySelector, innerKeySelector) ==
  BuiltThenEvaluated("groupJoin", kind,
                     <<inner, outerKeySelector, innerKeySelector>>,
                     groupJoinOf(Source(EmptyWorld, kind), inner,
                                 outerKeySelector, innerKeySelector,
                                 "undefined"))

NextSet ==
  \/ /\ res = NoRes
     /\ \E kind \in SourceKinds, second \in SetArrays,
           cmp \in EqualityComparers :
          EvalExcept(kind, second, cmp)
  \/ /\ res = NoRes
     /\ \E kind \in SourceKinds, second \in SetArrays,
           cmp \in EqualityComparers :
          EvalIntersect(kind, second, cmp)
  \/ /\ res = NoRes
     /\ \E kind \in SourceKinds, inner \in SetArrays,
           outerKeySelector, innerKeySelector \in KeySelectors,
           cmp \in EqualityComparers :
          EvalJoin(kind, inner, outerKeySelector, innerKeySelector, cmp)
  \/ /\ res = NoRes
     /\ \E kind \in SourceKinds, inner \in SetArrays,
           outerKeySelector, innerKeySelector \in KeySelectors :
          EvalGroupJoin(kind, inner, outerKeySelector, innerKeySelector)

SpecSet == InitSet /\ [][NextSet]_vars

(***************************************************************************)
(* A program that calls async() on a sequence; the invocations of the      *)
(* action call the functions of their contexts when they please, each up   *)
(* to MaxCalls times.                                                      *)
(***************************************************************************)
InitAsync ==
  /\ calls = <<>>
  /\ resets = 0
  /\ last = Step("init", 0, 0, <<>>, FALSE)
  /\ input \in {[i \in 1..n |-> Num(i)] : n \in 0..MaxItems}
  /\ \E kind \in SourceKinds :
       /\ heap = Source(EmptyWorld, kind).w.h
       /\ pulls = Source(EmptyWorld, kind).w.pulls
  /\ res = NoRes
  /\ task = NoTask

AsyncStep(r) ==
  /\ task' = r.t
  /\ heap' = r.w.h
  /\ pulls' = r.w.pulls
  /\ UNCHANGED <<calls, resets, last, input, res>>

\* The values the invocation k passes: to resolve in its n-th call, and as
\* a result.
NextValue(k, n) == Num(10 * k + n)
ResultValue(k) == Num(100 + k)

\* The reasons passed to reject: an error message, and none.
Reasons == {Str(1), Undef}

\* What an action throws.
ErrorThrown(k) == [t |-> "Error", n |-> <<k, 0>>]

Async(action, initial) ==
  /\ task.state = "none"
  /\ AsyncStep(async(World, action, initial))

MayCall(k) ==
  /\ k \in 1..Len(task.invs)
  /\ task.invs[k].calls < MaxCalls

Resolve(k) ==
  /\ MayCall(k)
  /\ AsyncStep(CtxResolve(task, World, k,
                          NextValue(k, task.invs[k].calls + 1)))

Cancel(k, args) ==
  /\ MayCall(k)
  /\ AsyncStep(CtxCancel(task, World, k, args))

Reject(k, args) ==
  /\ MayCall(k)
  /\ AsyncStep(CtxReject(task, World, k, args, "reject"))

\* The action throws: catch (e) { CTX.reject(e) }
Throw(k) ==
  /\ MayCall(k)
  /\ ~task.invs[k].threw
  /\ AsyncStep(CtxReject([task EXCEPT !.invs[k].threw = TRUE], World, k,
                         <<ErrorThrown(k)>>, "throw"))

\* What the invocation k does next.
Invocation(k) ==
  \/ Resolve(k)
  \/ \E args \in {<<>>, <<ResultValue(k)>>} : Cancel(k, args)
  \/ \E reason \in Reasons :
       \E args \in {<<reason>>, <<reason, ResultValue(k)>>} : Reject(k, args)
  \/ Throw(k)

NextAsync ==
  \/ \E action \in {"undefined", "user"}, initial \in {Undef, Num(0)} :
       Async(action, initial)
  \/ \E k \in 1..MaxItems : Invocation(k)

SpecAsync == InitAsync /\ [][NextAsync]_vars

\* An invocation of the action that has called nothing yet.
InFlight(k) == k \in 1..Len(task.invs) /\ task.invs[k].calls = 0

\* The promise has been resolved or rejected.
Settled == task.state \in {"resolved", "rejected"}

\* The first call an invocation makes.
FirstCall(k) == InFlight(k) /\ Invocation(k)

\* The program calls async(), and every invocation of the action that has
\* called nothing yet eventually calls resolve, cancel or reject, or throws.
FairAsync ==
  /\ \A initial \in {Undef, Num(0)} : WF_vars(Async("user", initial))
  /\ \A k \in 1..MaxItems : WF_vars(FirstCall(k))

SpecAsyncFair == SpecAsync /\ FairAsync

(***************************************************************************)
(* A program that pulls from a source (an array or a generator), calls     *)
(* consume() on it and pulls again afterwards.  consume() is a for-of loop *)
(* with an empty body: each step is one turn of the loop, and nothing else *)
(* runs before the loop is left.  res holds the call:                      *)
(* the sequence, what it had left to yield and the number of elements it   *)
(* had returned when consume() was called (history), what the loop has     *)
(* pulled so far, and what next() returned after the call.                 *)
(***************************************************************************)
InitConsume ==
  /\ calls = <<>>
  /\ resets = 0
  /\ last = Step("init", 0, 0, <<>>, FALSE)
  /\ input \in {[i \in 1..n |-> Num(i)] : n \in 0..MaxItems}
  /\ \E kind \in SourceKinds :
       /\ heap = Source(EmptyWorld, kind).w.h
       /\ pulls = Source(EmptyWorld, kind).w.pulls
  /\ res = NoRes
  /\ task = NoTask

\* heap[id].next(), before consume() is called
PullFirst(id) ==
  /\ res = NoRes
  /\ Pull(id)

\* heap[id].consume() is called.
Consume(id) ==
  /\ res = NoRes
  /\ res' = [q |-> "consuming", id |-> id, left |-> Remaining(heap, id),
             returned |-> pulls[id], seen |-> <<>>, after |-> <<>>]
  /\ UNCHANGED <<heap, calls, pulls, resets, last, input, task>>

\* A faulty variant of ConsumePulled: the loop is left after its first turn.
ConsumePulledOnce(p) ==
  /\ heap' = p.w.h
  /\ pulls' = p.w.pulls
  /\ res' = IF p.r.done THEN [res EXCEPT !.q = "consumed"]
            ELSE [res EXCEPT !.q = "consumed", !.seen = Append(@, p.r.value)]
  /\ UNCHANGED <<calls, resets, last, input, task>>

\* One turn of for (let item of this) { }: p is what this.next() gave.
ConsumePulled(p) ==
  /\ heap' = p.w.h
  /\ pulls' = p.w.pulls
  /\ res' = IF p.r.done THEN [res EXCEPT !.q = "consumed"]
            ELSE [res EXCEPT !.seen = Append(@, p.r.value)]
  /\ UNCHANGED <<calls, resets, last, input, task>>

ConsumeStep ==
  /\ res.q = "consuming"
  /\ ConsumePulled(next(World, res.id))

\* next() of the sequence consumed, after consume() has returned
AfterPulled(p) ==
  /\ heap' = p.w.h
  /\ pulls' = p.w.pulls
  /\ res' = [res EXCEPT !.after = Append(@, p.r)]
  /\ UNCHANGED <<calls, resets, last, input, task>>

PullAfter ==
  /\ res.q = "consumed"
  /\ Len(res.after) < MaxAfter
  /\ AfterPulled(next(World, res.id))

NextConsume ==
  \/ \E id \in DOMAIN heap : PullFirst(id)
  \/ \E id \in DOMAIN heap : Consume(id)
  \/ ConsumeStep
  \/ PullAfter

SpecConsume == InitConsume /\ [][NextConsume]_vars

\* The loop of consume() goes on until it is left.
SpecConsumeFair == SpecConsume /\ WF_vars(ConsumeStep)

(***************************************************************************)
(* A program that pulls from a source (an array or a generator), calls     *)
(* isEmpty() or length() on it and pulls again afterwards.  res holds the  *)
(* call: the sequence, what it had left to yield when the method was       *)
(* called (history), what the method returned, and what next() returned    *)
(* after the call.                                                         *)
(***************************************************************************)
\* o is what the method gave.
Observed(q, id, o) ==
  /\ heap' = o.w.h
  /\ pulls' = o.w.pulls
  /\ res' = [q |-> q, id |-> id, left |-> Remaining(heap, id), v |-> o.v,
             after |-> <<>>]
  /\ UNCHANGED <<calls, resets, last, input, task>>

\* heap[id].isEmpty()
IsEmpty(id) ==
  /\ res = NoRes
  /\ Observed("isEmpty", id, isEmpty(World, id))

\* heap[id].length()
Length(id) ==
  /\ res = NoRes
  /\ Observed("length", id, length(World, id))

\* next() of the sequence, after the method has returned
PullObserved ==
  /\ res.q \in {"isEmpty", "length"}
  /\ Len(res.after) < MaxAfter
  /\ AfterPulled(next(World, res.id))

NextObserve ==
  \/ \E id \in DOMAIN heap : PullFirst(id)
  \/ \E id \in DOMAIN heap : IsEmpty(id)
  \/ \E id \in DOMAIN heap : Length(id)
  \/ PullObserved

SpecObserve == InitConsume /\ [][NextObserve]_vars

(***************************************************************************)
(* A program that builds one or two lazy operators on one source and       *)
(* pulls from the source and from the operators in any order, each until   *)
(* it has signalled done.  An operator's generator iterates the source     *)
(* with for-of, and [Symbol.iterator]() of a sequence returns the sequence *)
(* itself, so every pull goes through the source's own next().  res holds  *)
(* the operators built and, for every pull, the sequence pulled, the       *)
(* number of elements the source had returned before and after it, and     *)
(* what it returned (history).                                             *)
(***************************************************************************)
SharedCalls ==
  {LazyCall("where", "even", Undef, <<>>),
   LazyCall("select", "inc", Undef, <<>>),
   LazyCall("skip", "undefined", Num(1), <<>>)}
    \cup {LazyCall("take", "undefined", Num(n), <<>>) : n \in 0..MaxTake}

InitShared ==
  /\ calls = <<>>
  /\ resets = 0
  /\ last = Step("init", 0, 0, <<>>, FALSE)
  /\ input \in {[i \in 1..n |-> Num(i)] : n \in 0..MaxItems}
  /\ \E kind \in SourceKinds :
       /\ heap = Source(EmptyWorld, kind).w.h
       /\ pulls = Source(EmptyWorld, kind).w.pulls
  /\ res = [q |-> "shared", ops |-> <<>>, log |-> <<>>]
  /\ task = NoTask

\* n is the sequence the call c on the source has returned.
Operated(n, c) ==
  /\ heap' = n.w.h
  /\ pulls' = n.w.pulls
  /\ res' = [res EXCEPT !.ops = Append(@, c)]
  /\ UNCHANGED <<calls, resets, last, input, task>>

\* heap[1].<lazy operator>(...), for the first and for the second consumer
Operate(c) ==
  /\ Len(res.ops) < 2
  /\ Operated(Invoke(World, 1, c), c)

\* p is what heap[id].next() gave.
SharedPulled(p, id) ==
  /\ heap' = p.w.h
  /\ pulls' = p.w.pulls
  /\ res' = [res EXCEPT !.log = Append(@, [id |-> id, from |-> pulls[1],
                                            to |-> p.w.pulls[1], r |-> p.r])]
  /\ UNCHANGED <<calls, resets, last, input, task>>

\* heap[id].next() has signalled done.
Finished(id) ==
  \E i \in DOMAIN res.log : res.log[i].id = id /\ res.log[i].r.done

\* heap[id].next(), by a consumer that stops at done
PullShared(id) ==
  /\ ~Finished(id)
  /\ SharedPulled(next(World, id), id)

NextShared ==
  \/ \E c \in SharedCalls : Operate(c)
  \/ \E id \in DOMAIN heap : PullShared(id)

SpecShared == InitShared /\ [][NextShared]_vars

\* The numbers start, start + 1, ..., count of them.
RangeOf(start, len) == [i \in 1..len |-> Num(start + i - 1)]

\* C11: take(n) and skip(n) partition range(start, count), range(0, 10)
\* among them: take(n) yields its first n elements (all of them when n
\* exceeds count), skip(n) the elements from position n on, and the two
\* together are the range, nothing missing and nothing twice.
C11_TakeSkipPartition ==
  res.q = "takeSkip" =>
    LET start == res.a[1]
        len == res.a[2]
        n == IF res.a[3] < len THEN res.a[3] ELSE len
    IN /\ res.n = RangeOf(start, len)
       /\ res.out = SubSeq(res.n, 1, n)
       /\ res.out2 = SubSeq(res.n, n + 1, len)
       /\ res.out \o res.out2 = res.n

\* C11's case: range(0, 10) split at 4.
C11_Witness ==
  /\ res.q = "takeSkip"
  /\ res.a = <<0, 10, 4>>
  /\ Len(res.out) = 4
  /\ Len(res.out2) = 6
  /\ res.out2[1] = Num(4)

Min(a, b) == IF a < b THEN a ELSE b

\* C12: zip(second, f) yields min(|first|, |second|) results, the i-th being
\* f(first[i], second[i], i), and stops pulling once an input is exhausted:
\* second gives up exactly that many elements, first at most one more
\* ([1, 2, 2] zipped with [1, 2] by the default sum is [2, 4]).
C12_ZipShorter ==
  res.q = "zip" =>
    LET second == res.a[1]
        len == Min(Len(input), Len(second))
    IN /\ Len(res.out) = len
       /\ \A i \in 1..len :
            res.out[i] = ApplyZip(res.a[2], input[i], second[i], i - 1)
       /\ res.n[2] = len
       /\ res.n[1] = Min(Len(input), len + 1)

\* C12's case: a longer first input zipped with a shorter second one.
C12_Witness ==
  /\ res.q = "zip"
  /\ input = <<Num(1), Num(2), Num(2)>>
  /\ res.a = <<(<<Num(1), Num(2)>>), "undefined">>
  /\ res.out = <<Num(2), Num(4)>>

\* The keys of the source elements.
KeysOf(sel) ==
  [i \in 1..Len(input) |->
     IF sel = "undefined" THEN input[i] ELSE Apply(sel, input[i])]

\* The positions of the source whose key equals the key at position i.
SameKey(cmp, keys, i) ==
  {j \in 1..Len(keys) : toEqualityComparerSafe(cmp, keys[j], keys[i])}

\* The positions at which a key occurs for the first time, in order.
KeyLeaders(cmp, keys) ==
  SelectSeq([i \in 1..Len(keys) |-> i],
            LAMBDA i : \A j \in 1..(i - 1) :
                         ~toEqualityComparerSafe(cmp, keys[j], keys[i]))

\* The elements at the positions in S, in source order.
ElementsAt(S) ==
  LET positions == SelectSeq([i \in 1..Len(input) |-> i], LAMBDA i : i \in S)
  IN [k \in 1..Len(positions) |-> input[positions[k]]]

RECURSIVE SumOf(_)
SumOf(a) == IF a = <<>> THEN 0 ELSE a[1].n + SumOf(Tail(a))

RECURSIVE ProductOf(_)
ProductOf(a) == IF a = <<>> THEN 1 ELSE a[1].n * ProductOf(Tail(a))

Failing(action) ==
  SelectSeq([i \in 1..Len(input) |-> i],
            LAMBDA i : Throws(action, input[i], i - 1))

\* The invocations of the action for the first n elements.
Invocations(action, n) == [i \in 1..n |-> <<action, input[i], i - 1>>]

\* C15: forAll(action) invokes the action once for every element, in order,
\* whatever the earlier invocations did; it then throws one AggregateError
\* iff some invocation threw, holding one FunctionError per failed
\* invocation, in order, with the index of the element and what the action
\* threw; otherwise it returns the sequence.
C15_ForAllCollects ==
  res.q = "forAll" =>
    LET action == res.a[1]
        failing == Failing(action)
    IN /\ res.calls = IF action = "undefined" THEN <<>>
                      ELSE Invocations(action, Len(input))
       /\ res.n[1] = Len(input)
       /\ res.out2 = (failing # <<>>)
       /\ failing = <<>> => res.out = Obj(1)
       /\ failing # <<>> =>
            /\ res.out.t = "AggregateError"
            /\ res.out.errors =
                 [k \in 1..Len(failing) |->
                    FunctionError(Thrown(action, input[failing[k]],
                                         failing[k] - 1),
                                  action, failing[k] - 1)]

\* C15's case: three elements, the action fails for the second and the
\* third.
C15_Witness ==
  /\ res.q = "forAll"
  /\ res.a = <<"failAfterFirst">>
  /\ Len(input) = 3
  /\ res.out2
  /\ Len(res.out.errors) = 2
  /\ res.out.errors[1].index = 1
  /\ res.out.errors[2].index = 2
  /\ Len(res.calls) = 3

\* C16: forEach(action) and assert(predicate) stop at the first failure: if
\* the action throws, or the predicate is false, at element k, the call
\* throws that failure, nothing is invoked for an element after k and no
\* element after k is pulled from the source; without a failure every
\* element is visited and the sequence is returned.
C16_FirstFailurePropagates ==
  /\ res.q = "forEach" =>
       LET action == res.a[1]
           failing == Failing(action)
       IN /\ res.out2 = (failing # <<>>)
          /\ failing = <<>> =>
               /\ res.out = Obj(1)
               /\ res.n[1] = Len(input)
               /\ res.calls = IF action = "undefined" THEN <<>>
                              ELSE Invocations(action, Len(input))
          /\ failing # <<>> =>
               /\ res.out = Thrown(action, input[failing[1]], failing[1] - 1)
               /\ res.n[1] = failing[1]
               /\ res.calls = Invocations(action, failing[1])
  /\ res.q = "assert" =>
       LET predicate == res.a[1]
           failing == SelectSeq([i \in 1..Len(input) |-> i],
                                LAMBDA i : ~Satisfies(predicate, input[i]))
           n == IF failing = <<>> THEN Len(input) ELSE failing[1]
       IN /\ res.out2 = (failing # <<>>)
          /\ res.n[1] = n
          /\ res.calls = IF predicate = "undefined" THEN <<>>
                         ELSE [i \in 1..n |-> <<predicate, input[i]>>]
          /\ failing = <<>> => res.out = Obj(1)
          /\ failing # <<>> =>
               res.out = toItemMessageSafe(input[n], n - 1)

\* C16's case: forEach over three elements, the action throws at the
\* second, which is where the traversal ends.
C16_Witness ==
  /\ res.q = "forEach"
  /\ res.a = <<"failOdd">>
  /\ input = <<Num(2), Num(1), Num(1)>>
  /\ res.out2
  /\ Len(res.calls) = 2
  /\ res.n[1] = 2

StrictLookups == {"first", "last", "single", "elementAt"}
OrDefaultLookups ==
  {"firstOrDefault", "lastOrDefault", "singleOrDefault", "elementAtOrDefault"}

\* The positions of the source a lookup's arguments select, in order: those
\* that satisfy the predicate, or the one at the index.
Matches(m, args) ==
  SelectSeq([i \in 1..Len(input) |-> i],
            LAMBDA i :
              IF m \in {"elementAt", "elementAtOrDefault"}
              THEN i = args[1].n + 1
              ELSE Len(args) >= 1 /\ args[1].t = "function"
                     => Satisfies(args[1].n, input[i]))

\* The default value the caller of an OrDefault lookup supplied, NOT_FOUND
\* when there is none.
Supplied(m, args) ==
  IF m = "elementAtOrDefault"
  THEN IF Len(args) >= 2 THEN args[2] ELSE NOT_FOUND
  ELSE IF Len(args) >= 2 THEN args[2]
  ELSE IF Len(args) = 1 /\ args[1].t # "function" THEN args[1]
  ELSE NOT_FOUND

C18_SingleAmbiguous ==
  res.q \in {"single", "singleOrDefault"} =>
    LET matches == Matches(res.q, res.a)
    IN /\ Len(matches) > 1 => res.out2 /\ res.out = AmbiguousError
       /\ Len(matches) = 1 => ~res.out2 /\ res.out = input[matches[1]]

\* C18's case: two elements are positive, and singleOrDefault throws though
\* a default value was passed.
C18_Witness ==
  /\ res.q = "singleOrDefault"
  /\ res.a = <<Fn("positive"), Num(7)>>
  /\ input = <<Num(1), Num(0), Num(2)>>
  /\ res.out2
  /\ res.out = AmbiguousError

\* C19: async(action, initial) goes through the source one element at a
\* time: the k-th invocation of the action gets index k, isFirst iff k = 0,
\* the k-th element, and as previousValue the value the invocation before
\* it passed to resolve (initial for the first); an element is pulled and
\* the action invoked for it only when the invocation before has called
\* resolve; and at most one invocation has not yet called resolve, cancel
\* or reject.
C19_AsyncSequential ==
  /\ \A k \in 1..Len(task.invs) :
       /\ task.invs[k].index = k - 1
       /\ task.invs[k].isFirst = (k = 1)
       /\ task.invs[k].item = input[k]
       /\ k = 1 => task.invs[k].previousValue = task.initial
       /\ k > 1 =>
            /\ task.invs[k - 1].passed # <<>>
            /\ \E n \in 1..Len(task.invs[k - 1].passed) :
                 task.invs[k].previousValue = task.invs[k - 1].passed[n]
  /\ task.action = "user" /\ task.state # "none" =>
       pulls[1] = Len(task.invs)
  /\ Cardinality({k \in 1..Len(task.invs) : InFlight(k)}) <= 1

\* C20: the promise of async() is settled once, by the first completion:
\* resolved with the result value of that time when the source was
\* exhausted or an action called cancel, rejected with the reason when an
\* action called reject or threw; no later call changes the outcome; and
\* with every invocation eventually calling resolve, cancel or reject, or
\* throwing, a pending promise is eventually settled.
C20_SettledOnce ==
  /\ [](task.cause \in {"exhausted", "cancel"} =>
          task.state = "resolved" /\ task.value = task.result)
  /\ [](task.cause \in {"reject", "throw"} =>
          task.state = "rejected" /\ task.value = task.reason)
  /\ [](Settled <=> task.cause # "none")
  /\ (task.state = "pending" ~> Settled)

\* C21: in async, once an action has called cancel or reject, or has thrown
\* (the first completion was not the exhaustion of the source), whatever the
\* actions do afterwards no further element is pulled from the source and
\* the action is invoked for no later element.
C21_AbortAfterFailure ==
  [][task.cause \in {"cancel", "reject", "throw"} =>
       /\ pulls' = pulls
       /\ index(heap', 1) = index(heap, 1)
       /\ Len(task'.invs) = Len(task.invs)]_vars

\* C22: whatever equality comparer is supplied, except(second, cmp) yields,
\* in order, the elements of the first sequence that no element of second
\* equals by cmp, and intersect(second, cmp) those that some element of
\* second equals by cmp; second is read to its end when the operator is
\* built, and nothing is pulled from the first sequence then.
C22_ExceptIntersect ==
  res.q \in {"except", "intersect"} =>
    /\ res.out = SelectSeq(input,
                           LAMBDA x : FoundIn(res.a[1], res.a[2], x)
                                        <=> res.q = "intersect")
    /\ res.n[1] = 0
    /\ res.n[2] = Len(res.a[1])

\* The key selector join() uses where sel was passed and other for the
\* other sequence.
JoinKey(sel, other, x) ==
  IF sel # "undefined" THEN Apply(sel, x)
  ELSE IF other # "undefined" THEN Apply(other, x)
  ELSE x

\* The pairs of positions of an outer and an inner element whose keys the
\* comparer takes for equal.
JoinMatches(outer, inner, outerKeySelector, innerKeySelector, cmp) ==
  {m \in (1..Len(outer)) \X (1..Len(inner)) :
     toEqualityComparerSafe(cmp,
       JoinKey(outerKeySelector, innerKeySelector, outer[m[1]]),
       JoinKey(innerKeySelector, outerKeySelector, inner[m[2]]))}

\* C23: whatever key equality comparer is supplied, join(inner, outerKey,
\* innerKey, result, cmp) yields one result(o, i) for each pair of an outer
\* element o and an inner element i with cmp(outerKey(o), innerKey(i)), and
\* no other: every pair of values occurs among the results as often as
\* among the matching pairs.
C23_JoinMatchingPairs ==
  res.q = "join" =>
    LET matches == JoinMatches(input, res.a[1], res.a[2], res.a[3], res.a[4])
    IN /\ Len(res.out) = Cardinality(matches)
       /\ \A x \in SetValues, y \in SetValues :
            Cardinality({n \in 1..Len(res.out) :
                           res.out[n] = JoinedItems(x, y)})
              = Cardinality({m \in matches :
                               input[m[1]] = x /\ res.a[1][m[2]] = y})

\* The size chunk() works with: the one passed when that is a number of 1
\* or more, 1 for anything else.
ChunkSize(size) == IF size.t = "number" /\ size.n >= 1 THEN size.n ELSE 1

\* C24: chunk(size) splits the source into consecutive array-backed chunks
\* whose concatenation, in order, is the source; every chunk but the last
\* has exactly size elements and the last has between 1 and size, so no
\* chunk is empty and an empty source yields no chunk; a size that is no
\* number, zero or negative behaves as size 1.
C24_ChunkPartition ==
  res.q = "chunk" =>
    LET size == ChunkSize(res.a[3])
        chunks == res.out
    IN /\ res.out2 = RangeOf(res.a[1], res.a[2])
       /\ Flatten([i \in 1..Len(chunks) |-> chunks[i].values]) = res.out2
       /\ \A i \in 1..Len(chunks) :
            /\ chunks[i].cls = "Array"
            /\ Len(chunks[i].values) \in 1..size
            /\ i < Len(chunks) => Len(chunks[i].values) = size
       /\ res.out2 = <<>> => chunks = <<>>

\* C24's case: range(0, 10).chunk(3) gives [0, 1, 2], [3, 4, 5], [6, 7, 8]
\* and [9].
C24_Witness ==
  /\ res.q = "chunk"
  /\ res.a = <<0, 10, Num(3)>>
  /\ [i \in 1..Len(res.out) |-> res.out[i].values]
       = <<RangeOf(0, 3), RangeOf(3, 3), RangeOf(6, 3), RangeOf(9, 1)>>

\* The invocations factory(cancel, 0), ..., factory(cancel, n - 1).
Invoked(factory, n) == [i \in 1..n |-> <<factory, i - 1>>]

\* The items of the sequences the factory "until" returns for 0, ..., n - 1.
ManyItems(n) ==
  Flatten([i \in 1..n |->
             CASE (i - 1) % 3 = 0 -> <<Num(10 * (i - 1))>>
               [] (i - 1) % 3 = 1 -> <<Num(10 * (i - 1)), Num(10 * (i - 1) + 1)>>
               [] OTHER -> <<>>])

C26_ConsumeTerminates ==
  /\ [](res.q = "consumed" =>
          /\ res.seen = res.left
          /\ pulls[res.id] = res.returned + Len(res.left)
          /\ current(heap, res.id) = <<DoneResult>>
          /\ heap[res.id].cls = "Iterator" =>
               heap[res.id]._iterator.pc = "done"
          /\ \A i \in 1..Len(res.after) : res.after[i] = DoneResult)
  /\ (res.q = "consuming" ~> res.q = "consumed")

\* C26's case: consume() was called on a generator-backed sequence of three
\* elements, one of which had been pulled before, and next() was called
\* afterwards.
C26_Witness ==
  /\ res.q = "consumed"
  /\ res.id = 1
  /\ heap[1].cls = "Iterator"
  /\ res.returned = 1
  /\ res.seen = <<Num(2), Num(3)>>
  /\ Len(res.after) = MaxAfter

\* The first operator built is take(n), it alone has been pulled, and its
\* last pull signalled done.
TakeIterated ==
  /\ res.q = "shared"
  /\ res.ops # <<>>
  /\ res.ops[1].m = "take"
  /\ res.log # <<>>
  /\ \A i \in DOMAIN res.log : res.log[i].id = 2
  /\ res.log[Len(res.log)].r.done

\* C27: when S.take(n) has been iterated to its end, min(n, |S|) elements
\* have been pulled from S, and S still yields its elements from position n
\* on: those that take(n) did not yield.
C27_TakePullsExactly ==
  TakeIterated =>
    /\ pulls[1] = Min(ParseCount(res.ops[1].n), Len(input))
    /\ Remaining(heap, 1) =
         SubSeq(input, ParseCount(res.ops[1].n) + 1, Len(input))

\* The results of m calls of next() on the sequence id, p being what the
\* first gave.
RECURSIVE PullTimes(_, _, _)
PulledTimes(p, id, m) == <<p.r>> \o PullTimes(p.w, id, m - 1)

PullTimes(w, id, m) ==
  IF m = 0 THEN <<>> ELSE PulledTimes(next(w, id), id, m)

\* The results of m calls of next() on the operator c built alone on a
\* generator that yields the elements of arr.
Alone(c, arr, m) ==
  PullTimes(
    Invoke(fromIterator(EmptyWorld,
                        Generator("toIterator", 0, "undefined", "",
                                  "undefined", 0, arr)).w, 1, c).w,
    2, m)

\* The elements of the source pulled by the calls of next() on id among the
\* first k calls logged: the share of id.
RECURSIVE Share(_, _)
Share(id, k) ==
  IF k = 0 THEN <<>>
  ELSE Share(id, k - 1) \o
         (IF res.log[k].id = id
          THEN SubSeq(input, res.log[k].from + 1, res.log[k].to)
          ELSE <<>>)

\* What the calls of next() on id returned, in order.
RECURSIVE Results(_, _)
Results(id, k) ==
  IF k = 0 THEN <<>>
  ELSE Results(id, k - 1) \o
         (IF res.log[k].id = id THEN <<res.log[k].r>> ELSE <<>>)

\* C28: two operators on one source, pulled in any interleaving, share the
\* source's cursor.  Each call of next() pulls the source from where the
\* call before left it, so an element is pulled once and through one
\* consumer only, and the source still yields exactly the elements not
\* pulled; each operator returns what it would return if it had been built
\* alone on a source of the elements pulled through it, in that order: it
\* sees its share in upstream order and nothing of the other's share.
C28_SharedCursor ==
  res.q = "shared" =>
    /\ \A k \in DOMAIN res.log :
         /\ res.log[k].from = IF k = 1 THEN 0 ELSE res.log[k - 1].to
         /\ res.log[k].id = 1 =>
              res.log[k].r = IF res.log[k].from < Len(input)
                             THEN Yield(input[res.log[k].from + 1])
                             ELSE DoneResult
    /\ Remaining(heap, 1) = SubSeq(input, pulls[1] + 1, Len(input))
    /\ \A j \in DOMAIN res.ops :
         Results(j + 1, Len(res.log)) =
           Alone(res.ops[j], Share(j + 1, Len(res.log)),
                 Len(Results(j + 1, Len(res.log))))

\* C28's case: where(even) and select(inc) on a generator of 1, 2, 3, pulled
\* in turn, select first: select got 1, where pulled 2, select got 3.
C28_Witness ==
  /\ res.q = "shared"
  /\ heap[1].cls = "Iterator"
  /\ Len(res.ops) = 2
  /\ res.ops[1].m = "where"
  /\ res.ops[2].m = "select"
  /\ Results(3, Len(res.log)) = <<Yield(Num(2)), Yield(Num(4))>>
  /\ Results(2, Len(res.log)) = <<Yield(Num(2))>>
  /\ Share(3, Len(res.log)) = <<Num(1), Num(3)>>

\* The keys of the elements of arr, by the selector sel (other when sel is
\* not given, the element itself when neither is).
JoinKeysOf(arr, sel, other) == [i \in 1..Len(arr) |-> JoinKey(sel, other, arr[i])]

\* The default comparer takes the keys x and y for equal.
SameJoinKey(x, y) == toEqualityComparerSafe("undefined", x, y)

\* The position at which the key at position i first occurs among keys.
FirstOfKey(keys, i) ==
  CHOOSE f \in 1..i :
    /\ SameJoinKey(keys[f], keys[i])
    /\ \A e \in 1..(f - 1) : ~SameJoinKey(keys[e], keys[i])

\* The positions of the outer elements whose key equals the key of some
\* inner element, ordered by the first occurrence of their key and then by
\* position.
MatchedOuter(outerKeys, innerKeys) ==
  Flatten([f \in 1..Len(outerKeys) |->
             SelectSeq([i \in 1..Len(outerKeys) |-> i],
                       LAMBDA i :
                         /\ FirstOfKey(outerKeys, i) = f
                         /\ \E j \in 1..Len(innerKeys) :
                              SameJoinKey(outerKeys[i], innerKeys[j]))])

\* The inner elements whose key equals k, in inner order.
InnerOfKey(inner, innerKeys, k) ==
  Flatten([j \in 1..Len(inner) |->
             IF SameJoinKey(k, innerKeys[j]) THEN <<inner[j]>> ELSE <<>>])

\* What the claim says groupJoin yields.
GroupJoinExpected(outer, inner, outerKeys, innerKeys) ==
  [n \in 1..Len(MatchedOuter(outerKeys, innerKeys)) |->
     JoinedItems(outer[MatchedOuter(outerKeys, innerKeys)[n]],
                 Arr(InnerOfKey(inner, innerKeys,
                                outerKeys[MatchedOuter(outerKeys,
                                                       innerKeys)[n]])))]

\* C29: with the default comparer, groupJoin(inner, outerKey, innerKey)
\* yields one result for each outer element whose key equals the key of at
\* least one inner element, holding that element and all the inner elements
\* with that key in inner order, and none for the other outer elements; the
\* results come by first occurrence of the outer key, then in outer order.
C29_GroupJoin ==
  res.q = "groupJoin" =>
    res.out = GroupJoinExpected(input, res.a[1],
                                JoinKeysOf(input, res.a[2], res.a[3]),
                                JoinKeysOf(res.a[1], res.a[3], res.a[2]))

\* The results of the first m calls of next() on a sequence that has the
\* elements of arr left to yield.
NextResults(arr, m) ==
  [i \in 1..m |-> IF i <= Len(arr) THEN Yield(arr[i]) ELSE DoneResult]

\* C30: isEmpty(), after any number of pulls, returns true exactly when the
\* next pull would signal done, and neither it nor length() changes what
\* later pulls yield: the sequence still yields what it had left when the
\* method was called, whether it is backed by an array or by an iterator.
C30_IsEmptyObserves ==
  res.q \in {"isEmpty", "length"} =>
    /\ res.q = "isEmpty" => res.v = (res.left = <<>>)
    /\ Remaining(heap, res.id) = SubSeq(res.left, Len(res.after) + 1,
                                        Len(res.left))
    /\ res.after = NextResults(res.left, Len(res.after))

====
